---- MODULE Spec2Model ----
(***************************************************************************)
(* Model of the GSignalX automation core of the M19 trading system:         *)
(*   - the rule engine (src/src/automation/rule_engine.py),                 *)
(*   - the signal fetcher (src/src/automation/signal_fetcher.py),           *)
(*   - the state store (src/src/automation/storage.py),                     *)
(*   - the runner loop (src/src/scripts/run_gsignalx_automation_runner.py). *)
(*                                                                         *)
(* Python None is the string "None"; the tri-state Optional[bool] is_stale  *)
(* is one of "True", "False", "None".                                       *)
(***************************************************************************)
EXTENDS Integers, Sequences, FiniteSets, TLC

VARIABLES
    \* ---- rule engine ----
    rule,            \* the AutomationRule given to evaluate_rule
    signal,          \* the Signal given to evaluate_rule
    result,          \* <<what evaluate_rule returned>>, <<>> before the call
    rules,           \* the rules given to evaluate_rules
    signals,         \* the signals given to evaluate_rules
    evalOut,         \* <<what evaluate_rules returned>>, <<>> before the call
    \* ---- fetcher ----
    fcfg,            \* FetchConfig: max_retries, max_pages, page_size
    fpc,             \* position inside fetch_all
    pages_fetched,   \* fetch_all's local pages_fetched
    next_url,        \* fetch_all's local next_url ("None" or a URL)
    next_page,       \* fetch_all's local next_page (NoneInt or an integer)
    attempt,         \* _get_with_retries' loop variable for the current page
    fsignals,        \* fetch_all's local signals list
    fetchOut,        \* the outcome of fetch_all: [state, signals, meta]
    flog,            \* history: per page request, its URL and parameters, the
                     \* attempts made (tries), the waits after the failed ones,
                     \* whether one succeeded (ok) and the signals parsed
                     \* (got); the last entry also holds fetch_all's local
                     \* payload, which the next iteration rebinds
                     \* (SpecParse: the last parse_signals call, its payload
                     \* and outcome)
    \* ---- state store and runner ----
    now,             \* wall clock, in seconds
    pairsDb,         \* committed rows of automation_active_pairs
    matchesDb,       \* committed rows of automation_rule_matches
    snapshotsDb,     \* committed rows of automation_signal_snapshots
    txn,             \* the open write transaction of the runner's connection
    rpc,             \* position of the runner inside run_forever / _persist
    cyc,             \* the data of the running cycle
    status,          \* the last record written to automation_status.json
    obs,             \* what the last list_active_pairs call of a reader returned
    rulesDb,         \* rows of automation_rules, by id
    ruleOut,         \* <<the last AutomationRuleStore call and what it returned>>
    stop_requested,  \* Runner.stop_requested
    hist             \* history: the last committed replace_active_pairs (the
                     \* (symbol, direction) pairs it was given, its clock reading plus its ttl_seconds) and
                     \* the number of publish calls made; for the Runner also
                     \* what the last successful cycle left in the store and
                     \* wrote as last_successful_cycle, and where the Runner
                     \* was when request_stop was called

evalVars  == <<rule, signal, result, rules, signals, evalOut>>
fetchVars == <<fcfg, fpc, pages_fetched, next_url, next_page, attempt, fsignals,
               fetchOut, flog>>
storeVars == <<now, pairsDb, matchesDb, snapshotsDb, txn, rpc, cyc, status, obs, hist>>
runVars   == <<rulesDb, ruleOut, stop_requested>>
vars      == <<evalVars, fetchVars, storeVars, runVars>>

None == "None"
\* None where the value is otherwise an integer (a page number)
NoneInt == 0 - 1

(***************************************************************************)
(* Bounds of the model.                                                    *)
(***************************************************************************)
MaxChain == 2        \* longest timeframe_chain of a rule given to evaluate_rule
MaxRules == 2        \* most rules given to one evaluate_rules call
MaxSignals == 3      \* most signals given to one evaluate_rules call
MaxRetries == 2      \* largest max_retries of a FetchConfig
MaxPages == 2        \* largest max_pages of a FetchConfig

(***************************************************************************)
(* Strings.  str.strip().upper() on the strings the model uses.            *)
(***************************************************************************)
StripUpper(s) ==
    CASE s = " eurusd " -> "EURUSD"
      [] s = "gbpusd"   -> "GBPUSD"
      [] s = "bullish"  -> "BULLISH"
      [] s = "bearish " -> "BEARISH"
      [] s = "range"    -> "RANGE"
      [] s = "d1"       -> "D1"
      [] s = " h4"      -> "H4"
      [] s = "buy"      -> "BUY"
      [] s = "sell"     -> "SELL"
      [] s = " "        -> ""
      [] OTHER          -> s

\* (x or "")
OrEmpty(x) == IF x = None THEN "" ELSE x

\* [f(x).strip().upper() for x in xs if x]
RECURSIVE NormList(_)
NormList(xs) ==
    IF xs = <<>> THEN <<>>
    ELSE IF Head(xs) = "" THEN NormList(Tail(xs))
    ELSE <<StripUpper(Head(xs))>> \o NormList(Tail(xs))

Range(s) == {s[i] : i \in DOMAIN s}

SeqsUpTo(S, n) == UNION {[1..k -> S] : k \in 0..n}

(***************************************************************************)
(* Rule engine: rule_engine.py                                             *)
(*                                                                         *)
(* A rule is [id, name, enabled, symbols, biases, market_phases,           *)
(* timeframe_chain]; a signal is [symbol, bias, market_phase, confidence,  *)
(* is_stale, timeframes], timeframes being a function from the timeframe   *)
(* labels the signal carries to the TimeframeSignal.signal of each.        *)
(* A RuleMatchResult is modelled without matched_at (the wall clock).      *)
(***************************************************************************)
_NO_TRADE_BIASES == {"NEUTRAL", "PENDING", ""}

\* Mutant of _TF_NO_TRADE: a NEUTRAL timeframe is not told from an opposite one.
TfNoTradeOnlyNone == {None}

_TF_NO_TRADE == {"NEUTRAL", "", None}

\* Mutant of _direction_for_bias: every bias but BEARISH trades long.
DirectionDefaultBuy(bias) == IF bias = "BEARISH" THEN "sell" ELSE "buy"

_direction_for_bias(bias) ==
    LET b == StripUpper(OrEmpty(bias))
    IN  IF b = "BULLISH" THEN "buy"
        ELSE IF b = "BEARISH" THEN "sell"
        ELSE None

_expected_tf_signal(direction) == IF direction = "buy" THEN "BUY" ELSE "SELL"

\* debug, as built at the top of evaluate_rule (the "timeframes" key is added
\* by the results of the chain loop only: has_timeframes).
DebugOf(r, s) ==
    [signal_bias |-> s.bias, signal_market_phase |-> s.market_phase,
     signal_is_stale |-> s.is_stale, rule |-> r,
     has_timeframes |-> FALSE, timeframes |-> <<>>]

RuleMatchResult(r, s, direction, matched, reasons, debug) ==
    [rule_id |-> r.id, rule_name |-> r.name, symbol |-> s.symbol,
     direction |-> direction, matched |-> matched, reasons |-> reasons,
     debug |-> debug]

\* a refusal that still carries the direction of the signal's bias
NoMatchKeepsDirection(r, s, reason) ==
    RuleMatchResult(r, s, _direction_for_bias(s.bias), FALSE, <<reason>>, DebugOf(r, s))

NoMatch(r, s, reason) ==
    RuleMatchResult(r, s, None, FALSE, <<reason>>, DebugOf(r, s))

\* tf_debug[tf] = entry
DictSet(d, k, v) == [x \in (DOMAIN d) \cup {k} |-> IF x = k THEN v ELSE d[x]]

WithTimeframes(r, s, tf_debug) ==
    [DebugOf(r, s) EXCEPT !.has_timeframes = TRUE, !.timeframes = tf_debug]

\* Mutant of TfMismatch: a timeframe pointing the other way is accepted.
TfMismatchNever(tf_signal_value, expected_tf) == FALSE

\* "if tf_signal_value != expected_tf"
TfMismatch(tf_signal_value, expected_tf) == tf_signal_value # expected_tf

\* The loop "for tf in tf_chain" of evaluate_rule, from position i on.
RECURSIVE ChainLoop(_, _, _, _, _, _)
ChainLoop(r, s, direction, tf_chain, i, tf_debug) ==
    IF i > Len(tf_chain)
    THEN RuleMatchResult(r, s, direction, TRUE,
             <<<<"Matched (bias + market_phase + timeframe alignment)", "">>>>,
             WithTimeframes(r, s, tf_debug))
    ELSE
      LET tf == tf_chain[i] IN
      IF tf \notin DOMAIN s.timeframes
      THEN RuleMatchResult(r, s, None, FALSE, <<<<"Missing timeframe", tf>>>>,
               WithTimeframes(r, s, DictSet(tf_debug, tf, [present |-> FALSE, signal |-> None])))
      ELSE
        LET tf_signal_value == StripUpper(OrEmpty(s.timeframes[tf]))
            dbg == DictSet(tf_debug, tf, [present |-> TRUE, signal |-> tf_signal_value])
        IN  IF tf_signal_value \in _TF_NO_TRADE
            THEN RuleMatchResult(r, s, None, FALSE, <<<<"Timeframe is NEUTRAL", tf>>>>,
                     WithTimeframes(r, s, dbg))
            ELSE IF TfMismatch(tf_signal_value, _expected_tf_signal(direction))
            THEN RuleMatchResult(r, s, None, FALSE, <<<<"Timeframe signal != expected", tf>>>>,
                     WithTimeframes(r, s, dbg))
            ELSE ChainLoop(r, s, direction, tf_chain, i + 1, dbg)

\* Mutant of IsStale: the staleness flag is not looked at.
IsStaleNever(s) == FALSE

\* "if signal.is_stale is True"
IsStale(s) == s.is_stale = "True"

\* Mutant of SymbolNotSelected: the symbol filter lets every symbol pass.
SymbolAlwaysSelected(r, s) == FALSE

\* "if rule.symbols and signal.symbol not in {s.strip().upper() for s in rule.symbols if s}"
SymbolNotSelected(r, s) == r.symbols # <<>> /\ s.symbol \notin Range(NormList(r.symbols))

\* Mutant of NoTimeframes: an empty chain goes on to the chain loop.
NoTimeframesNever(tf_chain) == FALSE

\* "if not tf_chain"
NoTimeframes(tf_chain) == tf_chain = <<>>

evaluate_rule(r, s) ==
    LET bias == StripUpper(OrEmpty(s.bias))
        direction == _direction_for_bias(bias)
        phase == StripUpper(OrEmpty(s.market_phase))
        tf_chain == NormList(r.timeframe_chain)
    IN  IF ~r.enabled
        THEN NoMatch(r, s, <<"Rule is disabled", "">>)
        ELSE IF IsStale(s)
        THEN NoMatch(r, s, <<"Signal is stale (not active)", "">>)
        ELSE IF SymbolNotSelected(r, s)
        THEN NoMatch(r, s, <<"Symbol not selected by rule", "">>)
        ELSE IF bias \in _NO_TRADE_BIASES
        THEN NoMatch(r, s, <<"Signal bias treated as no-trade", bias>>)
        ELSE IF r.biases # <<>> /\ bias \notin Range(NormList(r.biases))
        THEN NoMatch(r, s, <<"Bias filter did not match", "">>)
        ELSE IF direction = None
        THEN NoMatch(r, s, <<"Unrecognized bias direction (no-trade)", "">>)
        ELSE IF r.market_phases # <<>> /\ phase \notin Range(NormList(r.market_phases))
        THEN NoMatch(r, s, <<"Market phase filter did not match", "">>)
        ELSE IF NoTimeframes(tf_chain)
        THEN NoMatch(r, s, <<"Rule has no timeframe configured", "">>)
        ELSE ChainLoop(r, s, direction, tf_chain, 1, <<>>)

\* a prefilter that compares with the rule's symbols as they are written
PrefilteredRaw(r, s) == r.symbols # <<>> /\ s.symbol \notin Range(r.symbols)

\* The symbol prefilter of evaluate_rules: TRUE when the pair is skipped.
Prefiltered(r, s) == r.symbols # <<>> /\ s.symbol \notin Range(NormList(r.symbols))

\* activation.setdefault(sig.symbol, {...}) followed by the three add() calls;
\* activation is an ordered dict, modelled as the sequence of its entries.
RECURSIVE Activate(_, _, _, _)
Activate(activation, r, s, res) ==
    IF activation = <<>>
    THEN <<[symbol |-> s.symbol, directions |-> {res.direction},
            matched_rule_ids |-> {res.rule_id}, matched_rule_names |-> {res.rule_name},
            market_phase |-> s.market_phase, bias |-> s.bias,
            confidence |-> s.confidence, timeframes |-> r.timeframe_chain]>>
    ELSE IF Head(activation).symbol = s.symbol
    THEN <<[Head(activation) EXCEPT
              !.directions = @ \cup {res.direction},
              !.matched_rule_ids = @ \cup {res.rule_id},
              !.matched_rule_names = @ \cup {res.rule_name}]>> \o Tail(activation)
    ELSE <<Head(activation)>> \o Activate(Tail(activation), r, s, res)

\* every evaluation is collected, matching or not
CollectedAlways(res) == TRUE

\* "if r.matched:" guards results.append(r) and the activation entry
Collected(res) == res.matched

\* The nested loops "for rule in rules: for sig in sigs", from pair number k on
\* (pair k is rule k \div Len(sigs) + 1 with signal k % Len(sigs) + 1).
RECURSIVE EvalLoop(_, _, _, _, _)
EvalLoop(sigs, rls, k, results, activation) ==
    IF k >= Len(rls) * Len(sigs)
    THEN [results |-> results, activation |-> activation]
    ELSE
      LET r == rls[(k \div Len(sigs)) + 1]
          s == sigs[(k % Len(sigs)) + 1]
      IN  IF Prefiltered(r, s)
          THEN EvalLoop(sigs, rls, k + 1, results, activation)
          ELSE
            LET res == evaluate_rule(r, s)
            IN  IF Collected(res)
                THEN EvalLoop(sigs, rls, k + 1, Append(results, res),
                              Activate(activation, r, s, res))
                ELSE EvalLoop(sigs, rls, k + 1, results, activation)

\* directions = sorted([d for d in entry["directions"] if d])
SortedDirections(entry) == entry.directions \ {None, ""}

\* no symbol is ever held back as contested
ConflictNever(directions) == FALSE

\* Mutant of Conflict: only a symbol without any direction is skipped, so a
\* contested symbol is activated with the first of its directions.
ConflictOnlyEmpty(directions) == directions = {}

\* "if len(set(directions)) != 1: continue"
Conflict(directions) == Cardinality(directions) # 1

\* directions[0] of the sorted list: "buy" sorts before "sell".
FirstDirection(directions) == IF "buy" \in directions THEN "buy" ELSE "sell"

\* The second loop of evaluate_rules: the dict active_pairs, as a function from
\* the activated symbols.
ResolveActive(activation) ==
    LET kept == {i \in DOMAIN activation : ~Conflict(SortedDirections(activation[i]))}
        entryOf(sym) == activation[CHOOSE i \in kept : activation[i].symbol = sym]
    IN  [sym \in {activation[i].symbol : i \in kept} |->
           [symbol |-> sym,
            direction |-> FirstDirection(SortedDirections(entryOf(sym))),
            matched_rule_ids |-> entryOf(sym).matched_rule_ids,
            matched_rule_names |-> entryOf(sym).matched_rule_names,
            market_phase |-> entryOf(sym).market_phase,
            bias |-> entryOf(sym).bias,
            confidence |-> entryOf(sym).confidence,
            timeframes |-> entryOf(sym).timeframes]]

\* evaluate_rules(signals, rules) -> (results, active_pairs)
evaluate_rules(sigs, rls) ==
    LET out == EvalLoop(sigs, rls, 0, <<>>, <<>>)
    IN  [results |-> out.results, active_pairs |-> ResolveActive(out.activation)]

(***************************************************************************)
(* Signal parser: models.py                                                *)
(*                                                                         *)
(* A raw item is [is_dict, symbol, bias, market_phase, confidence,         *)
(* is_stale, timeframes]; a key the JSON object does not hold is Missing,  *)
(* a JSON null is None.  timeframes maps each raw label to the raw value   *)
(* of its "signal".                                                        *)
(***************************************************************************)
Missing == "<missing>"

\* item.get(key): a missing key reads as None
Get(v) == IF v = Missing THEN None ELSE v

\* _to_str_upper(value)
_to_str_upper(value) == IF value = None THEN None ELSE StripUpper(value)

\* (x or default) for an Optional[str]
OrDefault(x, default) == IF x = None \/ x = "" THEN default ELSE x

\* str(item.get("symbol", "")).strip().upper(): str(None) is "None"
ParseSymbol(v) ==
    IF v = Missing THEN "" ELSE IF v = None THEN "NONE" ELSE StripUpper(v)

\* the dict tf_map built by parse_signal: a later raw label that normalizes to
\* the same key overwrites an earlier one; the model's raw maps hold at most one
\* raw label per normalized key.
ParseTimeframes(tfs) ==
    [k \in {StripUpper(t) : t \in DOMAIN tfs} |->
        OrDefault(_to_str_upper(Get(tfs[CHOOSE t \in DOMAIN tfs : StripUpper(t) = k])),
                  "NEUTRAL")]

parse_signal(item) ==
    [symbol |-> ParseSymbol(item.symbol),
     bias |-> OrDefault(_to_str_upper(Get(item.bias)), ""),
     market_phase |-> _to_str_upper(Get(item.market_phase)),
     confidence |-> Get(item.confidence),
     is_stale |-> IF Get(item.is_stale) \in {"True", "False"} THEN item.is_stale ELSE None,
     timeframes |-> ParseTimeframes(item.timeframes),
     raw |-> item]

\* the loop of parse_signals over a list of items
RECURSIVE ParseItems(_)
ParseItems(items) ==
    IF items = <<>> THEN <<>>
    ELSE LET it == Head(items)
             sg == parse_signal(it)
         IN  IF it.is_dict /\ sg.symbol # ""
             THEN <<sg>> \o ParseItems(Tail(items))
             ELSE ParseItems(Tail(items))

ItemKeys == <<"data", "results", "items", "symbols">>

\* first of the candidate keys that holds a list, 0 when none does
FirstListKey(payload) ==
    IF \E i \in 1..4 : ItemKeys[i] \in DOMAIN payload.body /\ payload.body[ItemKeys[i]].is_list
    THEN CHOOSE i \in 1..4 :
            /\ ItemKeys[i] \in DOMAIN payload.body /\ payload.body[ItemKeys[i]].is_list
            /\ \A j \in 1..(i-1) : ~(ItemKeys[j] \in DOMAIN payload.body /\ payload.body[ItemKeys[j]].is_list)
    ELSE 0

\* first of the candidate keys present in a dict payload, 0 when none is
FirstKey(payload) ==
    IF \E i \in 1..4 : ItemKeys[i] \in DOMAIN payload.body
    THEN CHOOSE i \in 1..4 : /\ ItemKeys[i] \in DOMAIN payload.body
                             /\ \A j \in 1..(i-1) : ItemKeys[j] \notin DOMAIN payload.body
    ELSE 0

\* A payload is [shape, top, body, next, page, total_pages, pages]: shape is
\* "list" (top is the list), "dict" (body maps each candidate key present to
\* [is_list, items]) or "other" (null, a scalar).
parse_signals(payload) ==
    IF payload.shape = "list" THEN ParseItems(payload.top)
    ELSE IF payload.shape = "dict"
    THEN IF FirstKey(payload) = 0 THEN <<>>
         ELSE LET v == payload.body[ItemKeys[FirstKey(payload)]]
              IN  IF v.is_list THEN ParseItems(v.items) ELSE <<>>
    ELSE <<>>

(***************************************************************************)
(* Signal fetcher: signal_fetcher.py                                       *)
(***************************************************************************)
\* "isinstance(next_url, str) and next_url.strip()": next is None, a URL or
\* the blank string " ".
BaseUrl == "https://example.test/signals"
NextUrl == "https://example.test/signals?cursor=2"
NextUrlPadded == " https://example.test/signals?cursor=2 "

\* str.strip() on the URL texts the model uses
UrlStrip(s) == IF s = " " THEN "" ELSE IF s = NextUrlPadded THEN NextUrl ELSE s

\* a `next` that is never followed
HasNextNever(payload) == FALSE

HasNext(payload) == payload.next # None /\ UrlStrip(payload.next) # ""

\* "page_i and total_pages_i and page_i < total_pages_i", total_pages being
\* payload.get("total_pages") or payload.get("pages")
TotalPages(payload) ==
    IF payload.total_pages # NoneInt /\ payload.total_pages # 0
    THEN payload.total_pages ELSE payload.pages

MorePages(payload) ==
    /\ payload.page # NoneInt /\ payload.page # 0
    /\ TotalPages(payload) # NoneInt /\ TotalPages(payload) # 0
    /\ payload.page < TotalPages(payload)

\* a page counts as full only when it holds exactly page_size items
FullPageExact(payload, page_size) ==
    /\ FirstKey(payload) # 0
    /\ payload.body[ItemKeys[FirstKey(payload)]].is_list
    /\ Len(payload.body[ItemKeys[FirstKey(payload)]].items) = page_size

\* "isinstance(items, list) and len(items) >= self.config.page_size"
FullPage(payload, page_size) ==
    /\ FirstKey(payload) # 0
    /\ payload.body[ItemKeys[FirstKey(payload)]].is_list
    /\ Len(payload.body[ItemKeys[FirstKey(payload)]].items) >= page_size

\* _detect_next(payload, current_url, current_page) -> (next_url, next_page)
_detect_next(payload, current_url, current_page, page_size) ==
    IF payload.shape # "dict" THEN [url |-> None, page |-> NoneInt]
    ELSE IF HasNext(payload) THEN [url |-> UrlStrip(payload.next), page |-> NoneInt]
    ELSE IF MorePages(payload) THEN [url |-> current_url, page |-> payload.page + 1]
    ELSE IF FullPage(payload, page_size)
    THEN IF current_page = NoneInt THEN [url |-> current_url, page |-> 2]
         ELSE [url |-> current_url, page |-> current_page + 1]
    ELSE [url |-> None, page |-> NoneInt]

\* _page_params(page): the page size always, the page number unless page is None
_page_params(page, page_size) ==
    [limit |-> page_size, has_page |-> page # NoneInt, page |-> page]

\* a wait that does not grow
BackoffConstant(backoff_seconds, att) == backoff_seconds

\* "backoff = self.config.backoff_seconds * (2 ** (attempt - 1))"
Backoff(backoff_seconds, att) == backoff_seconds * 2^(att - 1)

FetchIdle ==
    /\ fpc = "idle" /\ pages_fetched = 0 /\ next_url = None /\ next_page = NoneInt
    /\ attempt = 0 /\ fsignals = <<>> /\ flog = <<>>
    /\ fetchOut = [state |-> "none", signals |-> <<>>]

\* Mutant of Raised: exhausted retries are reported as a fetch that returned
\* no signals.
RaisedAsNoSignals ==
    [state |-> "returned", signals |-> <<>>,
     meta |-> [pages_fetched |-> 0, signals_count |-> 0]]

\* What fetch_all hands to its caller when it raises: no value, so no signals.
Raised == [state |-> "raised", signals |-> <<>>]

\* fetch_all, lines 172-183: the configuration check and the locals.
FetchBegin ==
    /\ fpc = "idle"
    /\ flog' = <<>>
    /\ fsignals' = <<>>
    /\ pages_fetched' = 0
    /\ attempt' = 0
    /\ IF fcfg.signals_url = None
       THEN /\ fpc' = "raised"
            /\ fetchOut' = Raised
            /\ UNCHANGED <<next_url, next_page>>
       ELSE /\ fpc' = "loop"
            /\ next_url' = fcfg.signals_url
            /\ next_page' = 1
            /\ fetchOut' = [state |-> "none", signals |-> <<>>]
    /\ UNCHANGED fcfg

\* meta that tells the caller its page cap was applied
ReturnedFlagged(sigs, pages) ==
    [state |-> "returned", signals |-> sigs,
     meta |-> [pages_fetched |-> pages, signals_count |-> Len(sigs),
               truncated |-> TRUE]]

\* meta that counts only the follow-up pages
ReturnedFollowUps(sigs, pages) ==
    [state |-> "returned", signals |-> sigs,
     meta |-> [pages_fetched |-> IF pages > 0 THEN pages - 1 ELSE 0,
               signals_count |-> Len(sigs)]]

\* "return signals, meta" (lines 196-201)
Returned(sigs, pages) ==
    [state |-> "returned", signals |-> sigs,
     meta |-> [pages_fetched |-> pages, signals_count |-> Len(sigs)]]

\* Mutant of LoopGuard: the loop follows the server for as long as it names a
\* next page.
LoopGuardNoCap(url, pages, max_pages) == url # None /\ url # ""

\* "while next_url and pages_fetched < self.config.max_pages"
LoopGuard(url, pages, max_pages) == url # None /\ url # "" /\ pages < max_pages

\* The loop test of fetch_all and, when it passes, "pages_fetched += 1" and the
\* entry into _get_with_retries (attempt = 1).
FetchLoopTest ==
    /\ fpc = "loop"
    /\ pages_fetched <= MaxPages + 1
    /\ IF LoopGuard(next_url, pages_fetched, fcfg.max_pages)
       THEN /\ pages_fetched' = pages_fetched + 1
            /\ attempt' = 1
            /\ fpc' = "get"
            /\ flog' = Append([i \in DOMAIN flog |-> [flog[i] EXCEPT !.payload = <<>>]],
                              [tries |-> 0, ok |-> FALSE, got |-> <<>>,
                               url |-> next_url,
                               params |-> _page_params(next_page, fcfg.page_size),
                               payload |-> <<>>, waits |-> <<>>])
            /\ UNCHANGED fetchOut
       ELSE /\ fpc' = "done"
            /\ fetchOut' = Returned(fsignals, pages_fetched)
            /\ UNCHANGED <<pages_fetched, attempt, flog>>
    /\ UNCHANGED <<fcfg, next_url, next_page, fsignals>>

\* Mutant of Retryable: one attempt too many.
RetryableOffByOne(att, max_retries) == att <= max_retries + 1

\* "for attempt in range(1, self.config.max_retries + 1)": an attempt is left
Retryable(att, max_retries) == att <= max_retries

\* One attempt of _get_with_retries raises (transport error, non-2xx, bad JSON):
\* the except branch logs, sleeps the backoff and the loop goes on.
AttemptFail ==
    /\ fpc = "get"
    /\ Retryable(attempt, fcfg.max_retries)
    /\ attempt' = attempt + 1
    /\ flog' = [flog EXCEPT ![Len(flog)].tries = @ + 1,
                            ![Len(flog)].waits =
                                Append(@, Backoff(fcfg.backoff_seconds, attempt))]
    /\ UNCHANGED <<fcfg, fpc, pages_fetched, next_url, next_page, fsignals, fetchOut>>

\* The for loop of _get_with_retries ends without a return: RuntimeError, which
\* fetch_all does not catch.
FetchExhausted ==
    /\ fpc = "get"
    /\ ~Retryable(attempt, fcfg.max_retries)
    /\ fpc' = "raised"
    /\ fetchOut' = Raised
    /\ UNCHANGED <<fcfg, pages_fetched, next_url, next_page, attempt, fsignals, flog>>

\* One attempt returns resp.json() = payload; fetch_all parses the page, extends
\* signals, detects the next page and breaks when there is none.
AttemptOk(payload) ==
    /\ fpc = "get"
    /\ Retryable(attempt, fcfg.max_retries)
    /\ LET nxt == _detect_next(payload, next_url, next_page, fcfg.page_size)
           sigs == fsignals \o parse_signals(payload)
       IN  /\ fsignals' = sigs
           /\ next_url' = nxt.url
           /\ next_page' = nxt.page
           /\ flog' = [flog EXCEPT ![Len(flog)] =
                          [@ EXCEPT !.tries = @ + 1, !.ok = TRUE,
                                    !.got = parse_signals(payload),
                                    !.payload = <<payload>>]]
           /\ IF nxt.url = None
              THEN /\ fpc' = "done"
                   /\ fetchOut' = Returned(sigs, pages_fetched)
              ELSE /\ fpc' = "loop"
                   /\ UNCHANGED fetchOut
    /\ UNCHANGED <<fcfg, pages_fetched, attempt>>

(***************************************************************************)
(* State store: storage.py                                                 *)
(*                                                                         *)
(* Time is counted in whole seconds; a day has DayLen of them.  The two    *)
(* texts SQLite compares are modelled character by character: Python's     *)
(* datetime.isoformat() ("YYYY-MM-DDTHH:MM:SS+00:00") and SQLite's         *)
(* CURRENT_TIMESTAMP ("YYYY-MM-DD HH:MM:SS"), the date as a two-digit day  *)
(* number and the time of day as a two-digit second.  A TIMESTAMP column   *)
(* has NUMERIC affinity, so both stay TEXT and compare bytewise (BINARY).  *)
(***************************************************************************)
DayLen == 3          \* seconds in a day of the model
MaxTime == 4         \* the clock stops here
MaxTtl == 2          \* largest ttl_seconds of a publish
MaxCalls == 2        \* most publish calls a client of the store makes

Digits2(n) == <<48 + ((n \div 10) % 10), 48 + (n % 10)>>

\* datetime.isoformat() of the UTC time t: 'T' is 84, '+' is 43
isoformat(t) == Digits2(t \div DayLen) \o <<84>> \o Digits2(t % DayLen) \o <<43>>

\* SQLite's CURRENT_TIMESTAMP at time t: ' ' is 32
CURRENT_TIMESTAMP(t) == Digits2(t \div DayLen) \o <<32>> \o Digits2(t % DayLen)

\* a < b for two TEXT values under the BINARY collation (memcmp, then length)
RECURSIVE TextLess(_, _)
TextLess(a, b) ==
    IF b = <<>> THEN FALSE
    ELSE IF a = <<>> THEN TRUE
    ELSE IF Head(a) # Head(b) THEN Head(a) < Head(b)
    ELSE TextLess(Tail(a), Tail(b))

\* "expires_at > CURRENT_TIMESTAMP" at time t
NotExpired(expires_at, t) == TextLess(CURRENT_TIMESTAMP(t), expires_at)

\* "expires_at = now + timedelta(seconds=ttl_seconds)", then .isoformat()
ExpiresAt(t, ttl_seconds) == isoformat(t + ttl_seconds)

\* CHECK(direction IN ('buy','sell')) and NOT NULL of both tables
DirectionOk(direction) == direction \in {"buy", "sell"}

EmptyTable == <<>>

\* DELETE FROM <table> WHERE expires_at <= CURRENT_TIMESTAMP
PurgeExpired(table, t) ==
    [k \in {x \in DOMAIN table : NotExpired(table[x].expires_at, t)} |-> table[k]]

\* list_active_pairs(): the rows SELECTed, as a set (ORDER BY is not modelled)
list_active_pairs(table, t) ==
    {[symbol |-> k, direction |-> table[k].direction,
      matched_rule_ids |-> table[k].ids, expires_at |-> table[k].expires_at] :
        k \in {x \in DOMAIN table : NotExpired(table[x].expires_at, t)}}

\* list_rule_matches(user_id): the rows SELECTed, joined with the rules of the
\* user, as a set
list_rule_matches(table, rulesTable, user_id, t) ==
    {[rule_id |-> k[1], symbol |-> k[2], direction |-> table[k].direction] :
        k \in {x \in DOMAIN table :
                 /\ x[1] \in DOMAIN rulesTable
                 /\ rulesTable[x[1]].user_id = user_id
                 /\ NotExpired(table[x].expires_at, t)}}

NoTxn == [phase |-> "idle"]

\* The table a call of kind "pairs" / "matches" replaces.
TableOf(kind) == IF kind = "pairs" THEN pairsDb ELSE matchesDb

\* replace_active_pairs(active_pairs, ttl_seconds), lines 324-339, and
\* replace_rule_matches(matches, ttl_seconds), lines 374-387: the clock is read
\* once, expires_at is computed and the rows are built.  args is the sequence of
\* the entries [key, direction, ids] in the order of the dict / list.
BeginReplace(kind, args, ttl_seconds) ==
    [phase |-> "delete", kind |-> kind, rows |-> args, args |-> args,
     expires_at |-> ExpiresAt(now, ttl_seconds),
     work |-> TableOf(kind), before |-> TableOf(kind),
     at |-> now, ttl |-> ttl_seconds,
     inserted |-> 0,
     given |-> {<<args[i].key, args[i].direction>> : i \in DOMAIN args}]

\* Mutant of VisibleAfterStatement: every statement commits by itself
\* (a connection in autocommit mode).
VisibleUncommitted(committed, work) == work

\* What a statement of the open transaction leaves visible to other
\* connections: nothing before the commit (Python opens the transaction
\* implicitly before the first DELETE; "with self.conn" commits at its end).
VisibleAfterStatement(committed, work) == committed

\* Mutant of DeleteAll: the publish merges into the table instead of replacing it.
DeleteNothing(table) == table

\* what "DELETE FROM <table>" leaves of the table
DeleteAll(table) == EmptyTable

\* self.conn.execute("DELETE FROM <table>")
StepDelete ==
    /\ txn.phase = "delete"
    /\ txn' = [txn EXCEPT !.work = DeleteAll(txn.work),
                          !.phase = IF txn.rows = <<>> THEN "purge" ELSE "insert"]
    /\ pairsDb' = IF txn.kind = "pairs"
                  THEN VisibleAfterStatement(pairsDb, txn'.work) ELSE pairsDb
    /\ matchesDb' = IF txn.kind = "matches"
                    THEN VisibleAfterStatement(matchesDb, txn'.work) ELSE matchesDb
    /\ obs' = <<>>
    /\ UNCHANGED <<now, snapshotsDb, rpc, cyc, status, hist>>

\* Mutant of AfterRollback: the statements made before the error are committed.
AfterNoRollback(committed, work) == work

\* What "with self.conn" leaves in the table when its body raises: the
\* connection rolls back to the rows committed before the call.
AfterRollback(committed, work) == committed

\* INSERT OR IGNORE: a row whose key the table holds already is dropped
OnConflictIgnore(table, key, row) ==
    IF key \in DOMAIN table THEN table ELSE DictSet(table, key, row)

\* "INSERT ... ON CONFLICT(<primary key>) DO UPDATE SET <column> =
\* excluded.<column>": the table is keyed by its primary key, and a row whose
\* key is there already overwrites the columns of the row that is
OnConflictUpdate(table, key, row) == DictSet(table, key, row)

\* expires_at taken anew for each row, when the row is written
RowExpiresAtInsert(call_expires_at, t, ttl_seconds) == ExpiresAt(t, ttl_seconds)

\* the expires_at of a row: rows.append((..., expires_at.isoformat())) uses the
\* value computed before the loop, whatever the clock reads since
RowExpiresAt(call_expires_at, t, ttl_seconds) == call_expires_at

\* executemany(INSERT ... ON CONFLICT DO UPDATE ...): the next row.  A row the
\* CHECK / NOT NULL constraint rejects raises IntegrityError: "with self.conn"
\* rolls back and the error leaves the call.
StepInsertRow ==
    /\ txn.phase = "insert"
    /\ LET row == Head(txn.rows) IN
       IF DirectionOk(row.direction)
       THEN /\ txn' = [txn EXCEPT
                        !.work = OnConflictUpdate(txn.work, row.key,
                                    [direction |-> row.direction, ids |-> row.ids,
                                     expires_at |->
                                         RowExpiresAt(txn.expires_at, now, txn.ttl)]),
                        !.rows = Tail(txn.rows),
                        !.inserted = @ + 1,
                        !.phase = IF Tail(txn.rows) = <<>> THEN "purge" ELSE "insert"]
            /\ pairsDb' = IF txn.kind = "pairs"
                          THEN VisibleAfterStatement(pairsDb, txn'.work) ELSE pairsDb
            /\ matchesDb' = IF txn.kind = "matches"
                            THEN VisibleAfterStatement(matchesDb, txn'.work) ELSE matchesDb
       ELSE /\ txn' = [phase |-> "raised", kind |-> txn.kind, before |-> txn.before,
                        args |-> txn.args,
                        inserted |-> txn.inserted]
            /\ pairsDb' = IF txn.kind = "pairs"
                          THEN AfterRollback(txn.before, txn.work) ELSE pairsDb
            /\ matchesDb' = IF txn.kind = "matches"
                            THEN AfterRollback(txn.before, txn.work) ELSE matchesDb
    /\ obs' = <<>>
    /\ UNCHANGED <<now, snapshotsDb, rpc, cyc, status, hist>>

\* self.conn.execute("DELETE ... WHERE expires_at <= CURRENT_TIMESTAMP")
StepPurge ==
    /\ txn.phase = "purge"
    /\ txn' = [txn EXCEPT !.work = PurgeExpired(txn.work, now), !.phase = "commit"]
    /\ pairsDb' = IF txn.kind = "pairs"
                  THEN VisibleAfterStatement(pairsDb, txn'.work) ELSE pairsDb
    /\ matchesDb' = IF txn.kind = "matches"
                    THEN VisibleAfterStatement(matchesDb, txn'.work) ELSE matchesDb
    /\ obs' = <<>>
    /\ UNCHANGED <<now, snapshotsDb, rpc, cyc, status, hist>>

\* the end of "with self.conn": commit
StepCommit ==
    /\ txn.phase = "commit"
    /\ txn' = [phase |-> "done", kind |-> txn.kind]
    /\ pairsDb' = IF txn.kind = "pairs" THEN txn.work ELSE pairsDb
    /\ matchesDb' = IF txn.kind = "matches" THEN txn.work ELSE matchesDb
    /\ hist' = IF txn.kind = "pairs"
               THEN [hist EXCEPT !.published = TRUE, !.given = txn.given,
                                 !.expiry = txn.at + txn.ttl]
               ELSE hist
    /\ obs' = <<>>
    /\ UNCHANGED <<now, snapshotsDb, rpc, cyc, status>>

\* A reader (the web app's /api/automation/active_pairs, on a connection of its
\* own) calls list_active_pairs().
ReaderList ==
    /\ obs' = <<[rows |-> list_active_pairs(pairsDb, now), at |-> now]>>
    /\ UNCHANGED <<now, pairsDb, matchesDb, snapshotsDb, txn, rpc, cyc, status, hist>>

\* The clock advances by one second.
Tick ==
    /\ now < MaxTime
    /\ now' = now + 1
    /\ obs' = <<>>
    /\ UNCHANGED <<pairsDb, matchesDb, snapshotsDb, txn, rpc, cyc, status, hist>>

(***************************************************************************)
(* Idle values of the three parts, for the specifications that do not      *)
(* exercise them.                                                          *)
(***************************************************************************)
Symbols == {"EURUSD", "GBPUSD"}

DefaultRule ==
    [id |-> 1, name |-> "r1", enabled |-> TRUE, symbols |-> <<>>, biases |-> <<>>,
     market_phases |-> <<>>, timeframe_chain |-> <<"D1">>]

DefaultSignal ==
    [symbol |-> "EURUSD", bias |-> "BULLISH", market_phase |-> None,
     confidence |-> None, is_stale |-> None, timeframes |-> [t \in {"D1"} |-> "BUY"]]

DefaultFetchConfig ==
    [signals_url |-> BaseUrl, max_retries |-> 2, max_pages |-> 2, page_size |-> 1,
     backoff_seconds |-> 1]

EvalIdle ==
    /\ rule = DefaultRule /\ signal = DefaultSignal /\ result = <<>>
    /\ rules = <<>> /\ signals = <<>> /\ evalOut = <<>>

StoreIdle ==
    /\ now = 0
    /\ pairsDb = EmptyTable /\ matchesDb = EmptyTable /\ snapshotsDb = EmptyTable
    /\ txn = NoTxn
    /\ rpc = "idle" /\ cyc = [n |-> 0] /\ status = <<>>
    /\ rulesDb = <<>> /\ ruleOut = <<>> /\ stop_requested = FALSE
    /\ obs = <<>>
    /\ hist = [published |-> FALSE, given |-> {}, expiry |-> 0, calls |-> 0]

(***************************************************************************)
(* SpecStore: a client of AutomationStateStore calls replace_active_pairs  *)
(* and replace_rule_matches with arbitrary arguments while a reader lists   *)
(* the active pairs and the clock runs.                                    *)
(***************************************************************************)
\* The dicts given to replace_active_pairs, as the sequence of their entries;
\* "hold" is a direction the CHECK constraint rejects.
PairEntry(symbol, direction) == [key |-> symbol, direction |-> direction, ids |-> {1}]

PairArgs ==
    { <<>>,
      <<PairEntry("EURUSD", "buy")>>,
      <<PairEntry("GBPUSD", "sell")>>,
      <<PairEntry("EURUSD", "buy"), PairEntry("GBPUSD", "sell")>>,
      <<PairEntry("EURUSD", "sell"), PairEntry("GBPUSD", "hold")>>,
      <<PairEntry("GBPUSD", "hold")>> }

\* The lists given to replace_rule_matches, keyed by (rule_id, symbol).
MatchEntry(rule_id, symbol, direction) ==
    [key |-> <<rule_id, symbol>>, direction |-> direction, ids |-> {rule_id}]

MatchArgs ==
    { <<>>,
      <<MatchEntry(1, "EURUSD", "buy")>>,
      <<MatchEntry(1, "EURUSD", "buy"), MatchEntry(2, "EURUSD", "sell")>>,
      <<MatchEntry(1, "EURUSD", "buy"), MatchEntry(1, "EURUSD", "sell")>>,
      <<MatchEntry(2, "EURUSD", "sell"), MatchEntry(1, "EURUSD", "hold")>> }

CallFree == txn.phase \in {"idle", "done", "raised"}

ClientReplacePairs(args, ttl_seconds) ==
    /\ CallFree
    /\ cyc.table = "pairs"
    /\ hist.calls < MaxCalls
    /\ txn' = BeginReplace("pairs", args, ttl_seconds)
    /\ hist' = [hist EXCEPT !.calls = @ + 1]
    /\ obs' = <<>>
    /\ UNCHANGED <<now, pairsDb, matchesDb, snapshotsDb, rpc, cyc, status>>

ClientReplaceMatches(args, ttl_seconds) ==
    /\ CallFree
    /\ cyc.table = "matches"
    /\ hist.calls < MaxCalls
    /\ txn' = BeginReplace("matches", args, ttl_seconds)
    /\ hist' = [hist EXCEPT !.calls = @ + 1]
    /\ obs' = <<>>
    /\ UNCHANGED <<now, pairsDb, matchesDb, snapshotsDb, rpc, cyc, status>>

\* The two tables share no statement; a behaviour exercises one of them.
InitStore ==
    /\ EvalIdle /\ fcfg = DefaultFetchConfig /\ FetchIdle
    /\ now = 0
    /\ pairsDb = EmptyTable /\ matchesDb = EmptyTable /\ snapshotsDb = EmptyTable
    /\ txn = NoTxn
    /\ rpc = "client" /\ cyc \in {[table |-> "pairs"], [table |-> "matches"]}
    /\ status = <<>>
    /\ rulesDb = <<>> /\ ruleOut = <<>> /\ stop_requested = FALSE
    /\ obs = <<>>
    /\ hist = [published |-> FALSE, given |-> {}, expiry |-> 0, calls |-> 0]

NextStore ==
    \/ (\E a \in PairArgs, t \in 1..MaxTtl : ClientReplacePairs(a, t))
          /\ UNCHANGED <<evalVars, fetchVars, runVars>>
    \/ (\E a \in MatchArgs, t \in 1..MaxTtl : ClientReplaceMatches(a, t))
          /\ UNCHANGED <<evalVars, fetchVars, runVars>>
    \/ StepDelete /\ UNCHANGED <<evalVars, fetchVars, runVars>>
    \/ StepInsertRow /\ UNCHANGED <<evalVars, fetchVars, runVars>>
    \/ StepPurge /\ UNCHANGED <<evalVars, fetchVars, runVars>>
    \/ StepCommit /\ UNCHANGED <<evalVars, fetchVars, runVars>>
    \/ ReaderList /\ UNCHANGED <<evalVars, fetchVars, runVars>>
    \/ Tick /\ UNCHANGED <<evalVars, fetchVars, runVars>>

SpecStore == InitStore /\ [][NextStore]_vars

(***************************************************************************)
(* Claims about the state store, checked under SpecStore.                  *)
(***************************************************************************)
\* the (symbol, direction) pairs of the rows a list_active_pairs call returned
ObsPairs == {<<r.symbol, r.direction>> : r \in obs[1].rows}

InFlight == txn.phase \in {"delete", "insert", "purge", "commit"}

\* C1: a list_active_pairs call made after a sequence of replace_active_pairs
\* calls, before the expiry (clock reading plus ttl_seconds) of the most recent
\* one, returns exactly the symbols (with their directions) that call was
\* given: a symbol of an earlier call that the latest call does not hold is not
\* returned.
C1_LatestPublishOnly ==
    (obs # <<>> /\ CallFree /\ hist.published /\ obs[1].at < hist.expiry)
        => ObsPairs = hist.given

\* C1 witness: two publishes were made, the second without a symbol of the
\* first, and a reader listed the pairs before the expiry.
C1_Witness ==
    /\ obs # <<>> /\ CallFree /\ hist.published /\ obs[1].at < hist.expiry
    /\ hist.calls >= 2 /\ txn.phase = "done"
    /\ hist.given = {<<"GBPUSD", "sell">>}
    /\ ObsPairs = {<<"GBPUSD", "sell">>}

\* C2: a list_active_pairs call made between the statements of one
\* replace_active_pairs call (after the delete-all, between or after the
\* inserts, after the purge, before the commit) returns the complete set of the
\* last committed publish (the empty set when nothing was published yet) or the
\* complete set of the call in progress, never a strict part of either.
C2_AtomicReplace ==
    (obs # <<>> /\ InFlight /\ txn.kind = "pairs"
        /\ (hist.published => obs[1].at < hist.expiry))
        => ObsPairs \in {hist.given, txn.given}

\* C2 witness: a reader listed the pairs while a publish had deleted all rows
\* and inserted one of its two rows, and got the full previous set.
C2_Witness ==
    /\ obs # <<>> /\ InFlight /\ txn.kind = "pairs"
    /\ hist.published /\ obs[1].at < hist.expiry
    /\ txn.phase = "insert" /\ txn.inserted = 1
    /\ hist.given = {<<"EURUSD", "buy">>, <<"GBPUSD", "sell">>}
    /\ txn.given # hist.given
    /\ ObsPairs = hist.given

\* C4 (the claim as stated): with no publish after the one made at time t with
\* ttl_seconds, a list_active_pairs call at or after t + ttl_seconds returns no
\* row.
C4_ExpiredRowsHidden ==
    (obs # <<>> /\ CallFree /\ hist.published /\ obs[1].at >= hist.expiry)
        => obs[1].rows = {}

\* C6: when a publish raises part-way (a row the CHECK constraint rejects, after
\* the delete-all and possibly some inserts), the table holds exactly the rows
\* it held before the call.
C6_FailedPublishRollsBack ==
    txn.phase = "raised" => TableOf(txn.kind) = txn.before

\* C6 witness: a publish over a non-empty table raised after the delete-all and
\* one insert.
C6_Witness ==
    /\ txn.phase = "raised" /\ txn.kind = "pairs"
    /\ txn.inserted = 1
    /\ pairsDb # EmptyTable
    /\ DOMAIN pairsDb = {"EURUSD", "GBPUSD"}

(***************************************************************************)
(* SpecFetch: fetch_all against an upstream that may fail any attempt and  *)
(* may answer any of the payloads below, under every small configuration.  *)
(***************************************************************************)
RawItem(symbol, bias, tfs) ==
    [is_dict |-> TRUE, symbol |-> symbol, bias |-> bias, market_phase |-> "range",
     confidence |-> Missing, is_stale |-> Missing, timeframes |-> tfs]

ItemA == RawItem(" eurusd ", "bullish", [t \in {"d1"} |-> "buy"])
ItemB == RawItem("GBPUSD", "BEARISH", [t \in {"D1"} |-> "SELL"])

ListPayload(items) ==
    [shape |-> "list", top |-> items, body |-> <<>>, next |-> None,
     page |-> NoneInt, total_pages |-> NoneInt, pages |-> NoneInt]

OtherPayload ==
    [shape |-> "other", top |-> <<>>, body |-> <<>>, next |-> None,
     page |-> NoneInt, total_pages |-> NoneInt, pages |-> NoneInt]

DictPayload(items, next, page, total_pages) ==
    [shape |-> "dict", top |-> <<>>,
     body |-> [k \in {"results"} |-> [is_list |-> TRUE, items |-> items]],
     next |-> next, page |-> page, total_pages |-> total_pages, pages |-> NoneInt]

FetchPayloads ==
    {ListPayload(<<>>), ListPayload(<<ItemA>>), OtherPayload}
    \cup {DictPayload(items, None, pg[1], pg[2]) :
            items \in {<<>>, <<ItemA>>, <<ItemA, ItemB>>},
            pg \in {<<NoneInt, NoneInt>>, <<1, 2>>, <<2, 2>>}}
    \cup {DictPayload(<<ItemA>>, nx, pg[1], pg[2]) :
            nx \in {NextUrl, " ", NextUrlPadded},
            pg \in {<<NoneInt, NoneInt>>, <<1, 2>>, <<2, 2>>}}
    \cup {DictPayload(<<>>, NextUrl, NoneInt, NoneInt),
          DictPayload(<<ItemA, ItemB>>, NextUrl, NoneInt, NoneInt),
          [DictPayload(<<ItemA>>, None, 1, NoneInt) EXCEPT !.pages = 2],
          [DictPayload(<<>>, None, 2, NoneInt) EXCEPT !.pages = 2]}

FetchConfigs ==
    [signals_url : {BaseUrl, None}, max_retries : 0..MaxRetries,
     max_pages : 0..MaxPages, page_size : {1, 2}, backoff_seconds : {3}]

\* The caller is done with the outcome; the next fetch_all starts afresh.
FetchReset ==
    /\ fpc \in {"done", "raised"}
    /\ fpc' = "idle" /\ pages_fetched' = 0 /\ next_url' = None /\ next_page' = NoneInt
    /\ attempt' = 0 /\ fsignals' = <<>> /\ flog' = <<>>
    /\ fetchOut' = [state |-> "none", signals |-> <<>>]
    /\ UNCHANGED fcfg

InitFetch == EvalIdle /\ StoreIdle /\ fcfg \in FetchConfigs /\ FetchIdle

FetchStep ==
    \/ FetchLoopTest /\ UNCHANGED <<evalVars, storeVars, runVars>>
    \/ AttemptFail /\ UNCHANGED <<evalVars, storeVars, runVars>>
    \/ FetchExhausted /\ UNCHANGED <<evalVars, storeVars, runVars>>
    \/ (\E payload \in FetchPayloads : AttemptOk(payload)) /\ UNCHANGED <<evalVars, storeVars, runVars>>

NextFetch ==
    \/ FetchBegin /\ UNCHANGED <<evalVars, storeVars, runVars>>
    \/ FetchStep
    \/ FetchReset /\ UNCHANGED <<evalVars, storeVars, runVars>>

\* fetch_all runs on the runner's only thread: a step that can be taken is taken.
SpecFetch == InitFetch /\ [][NextFetch]_vars /\ WF_vars(FetchStep)

RECURSIVE ConcatGot(_)
ConcatGot(log) == IF log = <<>> THEN <<>> ELSE Head(log).got \o ConcatGot(Tail(log))

Fetching == fpc \in {"loop", "get"}
FetchEnded == fpc \in {"done", "raised"}

\* C7: fetch_all makes at most max_pages page requests and ends (returns or
\* raises), whatever the upstream answers: a next URL on every page, page <
\* total_pages on every page, full pages only.
C7_FetchTerminates ==
    /\ [](pages_fetched <= fcfg.max_pages /\ Len(flog) <= fcfg.max_pages)
    /\ (Fetching ~> FetchEnded)

\* C7 witness: fetch_all returned after max_pages (two) page requests although
\* the last response named a next URL.
C7_Witness ==
    /\ fpc = "done" /\ fcfg.max_pages = 2 /\ pages_fetched = 2
    /\ next_url = NextUrl /\ fetchOut.state = "returned"

Chains == SeqsUpTo({"d1", "H4"}, MaxChain) \cup {<<"">>, <<"", "d1">>}

RuleInputs ==
    [id : {1}, name : {"r1"}, enabled : BOOLEAN,
     symbols : {<<>>, <<" eurusd ", "">>},
     biases : {<<>>, <<"bullish">>, <<"BEARISH", "NEUTRAL", "PENDING", "SIDEWAYS">>},
     market_phases : {<<>>, <<"range">>},
     timeframe_chain : Chains]

TfMaps ==
    {tfs \in UNION {[labels -> {"BUY", "SELL", "NEUTRAL"}] : labels \in SUBSET {"D1", "H4"}} :
        "H4" \in DOMAIN tfs => tfs["H4"] # "NEUTRAL"}

SignalInputs ==
    [symbol : {"EURUSD", "GBPUSD"},
     bias : {"BULLISH", "BEARISH", "NEUTRAL", "PENDING", "", "SIDEWAYS"},
     market_phase : {None, "RANGE"},
     confidence : {None},
     is_stale : {"True", None},
     timeframes : TfMaps]

InitRule ==
    /\ rule \in RuleInputs /\ signal = DefaultSignal /\ result = <<>>
    /\ rules = <<>> /\ signals = <<>> /\ evalOut = <<>>
    /\ fcfg = DefaultFetchConfig /\ FetchIdle /\ StoreIdle

\* evaluate_rule(rule, s) is called.
EvaluateRule(s) ==
    /\ result = <<>>
    /\ signal' = s
    /\ result' = <<evaluate_rule(rule, s)>>
    /\ UNCHANGED <<rule, rules, signals, evalOut>>

NextRule == (\E s \in SignalInputs : EvaluateRule(s)) /\ UNCHANGED <<fetchVars, storeVars, runVars>>

SpecRule == InitRule /\ [][NextRule]_vars

\* The direction a bias implies, and the timeframe signal that goes with it.
ImpliedDirection(bias) ==
    IF bias = "BULLISH" THEN "buy" ELSE IF bias = "BEARISH" THEN "sell" ELSE None
ImpliedTf(bias) == IF bias = "BULLISH" THEN "BUY" ELSE "SELL"
OppositeTf(bias) == IF bias = "BULLISH" THEN "SELL" ELSE "BUY"

\* the timeframes of the rule's chain, normalized, empty entries dropped
ChainSet(r) == Range(NormList(r.timeframe_chain))

\* every timeframe of the rule's chain is present in the signal with the signal
\* the bias implies
Aligned(r, s) ==
    /\ s.bias \in {"BULLISH", "BEARISH"}
    /\ \A tf \in ChainSet(r) :
          tf \in DOMAIN s.timeframes /\ s.timeframes[tf] = ImpliedTf(s.bias)

\* the checks that come before the chain pass
Eligible(r, s) ==
    /\ r.enabled
    /\ s.is_stale # "True"
    /\ (r.symbols = <<>> \/ s.symbol \in Range(NormList(r.symbols)))
    /\ (r.biases = <<>> \/ s.bias \in Range(NormList(r.biases)))
    /\ (r.market_phases = <<>> \/ OrEmpty(s.market_phase) \in Range(NormList(r.market_phases)))
    /\ ChainSet(r) # {}

\* the signal with timeframe tf set to value v
WithTf(s, tf, v) == [s EXCEPT !.timeframes = DictSet(s.timeframes, tf, v)]

\* C9: for every rule and every signal with is_stale = true, evaluate_rule
\* returns matched = false and direction = null.
C9_StaleNeverMatches ==
    (result # <<>> /\ signal.is_stale = "True")
        => (~result[1].matched /\ result[1].direction = None)

\* C9 witness: a stale signal was evaluated against an enabled rule that the
\* same signal, not stale, matches.
C9_Witness ==
    /\ result # <<>> /\ signal.is_stale = "True" /\ rule.enabled
    /\ Eligible(rule, [signal EXCEPT !.is_stale = "False"]) /\ Aligned(rule, signal)
    /\ Len(rule.timeframe_chain) = 2

\* C10 (the claim as stated): whenever every timeframe of the chain is present
\* with the bias-implied signal, evaluate_rule returns matched = true with the
\* implied direction.
C10_AlignedAlwaysMatches ==
    (result # <<>> /\ Aligned(rule, signal))
        => (result[1].matched /\ result[1].direction = ImpliedDirection(signal.bias))

\* C10 (amended): for an enabled rule with at least one timeframe in its chain
\* and a signal that is not stale and passes the rule's symbol, bias and
\* market-phase filters, if every timeframe of the chain is present with the
\* bias-implied signal then evaluate_rule returns matched = true with direction
\* buy for BULLISH and sell for BEARISH; and changing any one timeframe of the
\* chain to NEUTRAL or to the opposite direction gives matched = false.
C10_AlignedEligibleMatches ==
    (result # <<>> /\ Aligned(rule, signal) /\ Eligible(rule, signal))
        => /\ result[1].matched
           /\ result[1].direction = ImpliedDirection(signal.bias)
           /\ \A tf \in ChainSet(rule) : \A v \in {"NEUTRAL", OppositeTf(signal.bias)} :
                 /\ ~evaluate_rule(rule, WithTf(signal, tf, v)).matched
                 /\ evaluate_rule(rule, WithTf(signal, tf, v)).direction = None

\* C10 witness: a BEARISH signal aligned on a two-timeframe chain was evaluated
\* against an enabled rule whose filters it passes.
C10_Witness ==
    /\ result # <<>> /\ Aligned(rule, signal) /\ Eligible(rule, signal)
    /\ signal.bias = "BEARISH" /\ ChainSet(rule) = {"D1", "H4"}
    /\ rule.biases # <<>> /\ rule.symbols # <<>> /\ rule.market_phases # <<>>
    /\ result[1].direction = "sell"

\* C11: a rule whose timeframe_chain is empty, or holds only empty entries,
\* matches no signal: evaluate_rule returns matched = false, no direction.
C11_EmptyChainNeverMatches ==
    (result # <<>> /\ \A i \in DOMAIN rule.timeframe_chain : rule.timeframe_chain[i] = "")
        => (~result[1].matched /\ result[1].direction = None)

\* C11 witness: an enabled rule whose chain holds one empty entry was evaluated
\* on a signal that passes every earlier check, and the chain was the reason.
C11_Witness ==
    /\ result # <<>> /\ rule.timeframe_chain = <<"">> /\ rule.enabled
    /\ rule.symbols # <<>> /\ rule.biases # <<>> /\ rule.market_phases # <<>>
    /\ signal.timeframes = [t \in {"D1", "H4"} |-> "BUY"]
    /\ result[1].reasons = <<<<"Rule has no timeframe configured", "">>>>

\* The checks of the spec's list, in its order: TRUE when check k fails for
\* rule r and signal s (check 9, the alignment, is asked of a bias with a
\* direction only).
CheckFails(k, r, s) ==
    LET bias == StripUpper(OrEmpty(s.bias)) IN
    CASE k = 1 -> ~r.enabled
      [] k = 2 -> s.is_stale = "True"
      [] k = 3 -> r.symbols # <<>> /\ s.symbol \notin Range(NormList(r.symbols))
      [] k = 4 -> bias \in {"NEUTRAL", "PENDING", ""}
      [] k = 5 -> r.biases # <<>> /\ bias \notin Range(NormList(r.biases))
      [] k = 6 -> bias \notin {"BULLISH", "BEARISH"}
      [] k = 7 -> r.market_phases # <<>>
                    /\ StripUpper(OrEmpty(s.market_phase)) \notin Range(NormList(r.market_phases))
      [] k = 8 -> ChainSet(r) = {}
      [] k = 9 -> \E tf \in ChainSet(r) :
                     tf \notin DOMAIN s.timeframes \/ s.timeframes[tf] # ImpliedTf(bias)

\* the reason texts of the nine checks
CheckReasons ==
    << {"Rule is disabled"}, {"Signal is stale (not active)"},
       {"Symbol not selected by rule"}, {"Signal bias treated as no-trade"},
       {"Bias filter did not match"}, {"Unrecognized bias direction (no-trade)"},
       {"Market phase filter did not match"}, {"Rule has no timeframe configured"},
       {"Missing timeframe", "Timeframe is NEUTRAL", "Timeframe signal != expected"} >>

FailingChecks(r, s) == {k \in 1..9 : CheckFails(k, r, s)}

FirstFailing(r, s) ==
    CHOOSE k \in FailingChecks(r, s) : \A j \in FailingChecks(r, s) : k <= j

\* C12: evaluate_rule reports exactly one reason; when some check fails it is
\* the reason of the first failing check in the order disabled, stale, symbol,
\* no-trade bias, bias filter, direction, market phase, empty chain, alignment,
\* whatever later checks would say, and the result is not matched; when no
\* check fails the result is matched.
C12_FirstFailingCheckWins ==
    result # <<>> =>
        /\ Len(result[1].reasons) = 1
        /\ IF FailingChecks(rule, signal) = {}
           THEN result[1].matched
           ELSE /\ ~result[1].matched
                /\ result[1].reasons[1][1] \in CheckReasons[FirstFailing(rule, signal)]

\* C12 witness: a signal outside the rule's symbol filter with a NEUTRAL bias,
\* which the bias filter does not list either, had the symbol reason reported.
C12_Witness ==
    /\ result # <<>> /\ rule.enabled /\ signal.is_stale # "True"
    /\ {3, 4, 5, 6} \subseteq FailingChecks(rule, signal)
    /\ result[1].reasons = <<<<"Symbol not selected by rule", "">>>>

\* C13: a signal whose bias is not BULLISH or BEARISH (the no-trade values
\* NEUTRAL, PENDING and empty, and any other value) matches no rule, whether
\* the rule's biases filter is empty or lists that very value.
C13_NoTradeBiasNeverMatches ==
    (result # <<>> /\ signal.bias \notin {"BULLISH", "BEARISH"})
        => (~result[1].matched /\ result[1].direction = None)

\* C13 witness: a SIDEWAYS signal with every chain timeframe at BUY was
\* evaluated against an enabled rule whose bias filter lists SIDEWAYS and
\* whose other filters it passes.
C13_Witness ==
    /\ result # <<>> /\ signal.bias = "SIDEWAYS"
    /\ FailingChecks(rule, signal) \ {9} = {6}
    /\ "SIDEWAYS" \in Range(rule.biases) /\ "NEUTRAL" \in Range(rule.biases)
    /\ ChainSet(rule) = {"D1", "H4"}
    /\ signal.timeframes = [t \in {"D1", "H4"} |-> "BUY"]

\* the first position of chain whose timeframe is missing from signal s or does
\* not carry the expected signal; 0 when there is none
RECURSIVE FirstBad(_, _, _, _)
FirstBad(chain, s, expected, i) ==
    IF i > Len(chain) THEN 0
    ELSE IF chain[i] \notin DOMAIN s.timeframes \/ s.timeframes[chain[i]] # expected THEN i
    ELSE FirstBad(chain, s, expected, i + 1)

\* the kind of failure of timeframe tf in signal s
BadKind(s, tf) ==
    IF tf \notin DOMAIN s.timeframes THEN "Missing timeframe"
    ELSE IF s.timeframes[tf] \in {"NEUTRAL", ""} THEN "Timeframe is NEUTRAL"
    ELSE "Timeframe signal != expected"

\* C14: when the checks before the chain pass, the chain is walked in the rule's
\* order and stops at the first timeframe that is missing, NEUTRAL or opposite:
\* the result is not matched, its reason names that timeframe and the kind of
\* its failure, and the debug trace has entries exactly for the timeframes up
\* to and including that one (all of them when no timeframe fails).
C14_ChainStopsAtFirstBad ==
    (result # <<>> /\ FailingChecks(rule, signal) \subseteq {9})
        => LET chain == NormList(rule.timeframe_chain)
               k == FirstBad(chain, signal, ImpliedTf(signal.bias), 1)
           IN  /\ result[1].debug.has_timeframes
               /\ DOMAIN result[1].debug.timeframes =
                     {chain[i] : i \in 1..(IF k = 0 THEN Len(chain) ELSE k)}
               /\ k = 0 => result[1].matched
               /\ k # 0 =>
                     /\ ~result[1].matched /\ result[1].direction = None
                     /\ result[1].reasons = <<<<BadKind(signal, chain[k]), chain[k]>>>>
                     /\ result[1].debug.timeframes[chain[k]].present
                           = (chain[k] \in DOMAIN signal.timeframes)

\* C14 witness: on the chain H4, D1 both timeframes fail (H4 opposite, D1
\* NEUTRAL); the reason names H4 and the trace holds H4 only.
C14_Witness ==
    /\ result # <<>> /\ FailingChecks(rule, signal) = {9}
    /\ NormList(rule.timeframe_chain) = <<"H4", "D1">>
    /\ signal.bias = "BULLISH"
    /\ signal.timeframes = [t \in {"D1", "H4"} |-> IF t = "D1" THEN "NEUTRAL" ELSE "SELL"]
    /\ result[1].reasons = <<<<"Timeframe signal != expected", "H4">>>>
    /\ DOMAIN result[1].debug.timeframes = {"H4"}

(***************************************************************************)
(* SpecRules: evaluate_rules on a list of signals and a list of rules.     *)
(***************************************************************************)
SmallRule(id, enabled, symbols, biases, chain) ==
    [id |-> id, name |-> <<"rule", id>>, enabled |-> enabled, symbols |-> symbols,
     biases |-> biases, market_phases |-> <<>>, timeframe_chain |-> chain]

SmallRules ==
    { SmallRule(1, TRUE, <<>>, <<>>, <<"D1">>),
      SmallRule(2, TRUE, <<" eurusd ", "">>, <<"BEARISH">>, <<"D1", "H4">>),
      SmallRule(3, FALSE, <<>>, <<>>, <<"D1">>),
      SmallRule(4, TRUE, <<>>, <<"BULLISH">>, <<"H4">>) }

SmallSignal(symbol, bias, phase, stale, conf, tfs) ==
    [symbol |-> symbol, bias |-> bias, market_phase |-> phase, confidence |-> conf,
     is_stale |-> stale, timeframes |-> tfs]

SmallSignals ==
    { SmallSignal("EURUSD", "BULLISH", "RANGE", "False", "0.9", [t \in {"D1", "H4"} |-> "BUY"]),
      SmallSignal("EURUSD", "BEARISH", "EXPANSION", None, "0.4", [t \in {"D1", "H4"} |-> "SELL"]),
      SmallSignal("GBPUSD", "BEARISH", None, None, None, [t \in {"D1"} |-> "SELL"]),
      SmallSignal("GBPUSD", "BEARISH", "TREND", None, "0.2", [t \in {"D1"} |-> "SELL"]),
      SmallSignal("EURUSD", "BULLISH", "RANGE", "True", "0.9", [t \in {"D1", "H4"} |-> "BUY"]),
      SmallSignal("GBPUSD", "BULLISH", "MIXED", "False", "0.7",
                  [t \in {"D1", "H4"} |-> IF t = "D1" THEN "BUY" ELSE "NEUTRAL"]) }

InitRules ==
    /\ rule = DefaultRule /\ signal = DefaultSignal /\ result = <<>>
    /\ rules \in SeqsUpTo(SmallRules, MaxRules) /\ signals = <<>> /\ evalOut = <<>>
    /\ fcfg = DefaultFetchConfig /\ FetchIdle /\ StoreIdle

\* evaluate_rules(sigs, rules) is called.
EvaluateRules(sigs) ==
    /\ evalOut = <<>>
    /\ signals' = sigs
    /\ evalOut' = <<evaluate_rules(sigs, rules)>>
    /\ UNCHANGED <<rule, signal, result, rules>>

NextRules ==
    (\E sigs \in SeqsUpTo(SmallSignals, MaxSignals) : EvaluateRules(sigs))
        /\ UNCHANGED <<fetchVars, storeVars, runVars>>

SpecRules == InitRules /\ [][NextRules]_vars

\* the directions of the matching evaluations of a symbol, over all (rule,
\* signal) pairs
MatchedDirections(sym) ==
    {evaluate_rule(rules[i], signals[j]).direction :
        <<i, j>> \in {p \in (DOMAIN rules) \X (DOMAIN signals) :
                        /\ signals[p[2]].symbol = sym
                        /\ evaluate_rule(rules[p[1]], signals[p[2]]).matched}}

\* C3: a symbol whose matching results carry both directions is absent from
\* active_pairs; a symbol is in active_pairs only when its matching results
\* (at least one) all carry one direction, which is then the pair's direction.
C3_ConflictNotActivated ==
    evalOut # <<>> =>
        \A sym \in Symbols :
            /\ Cardinality(MatchedDirections(sym)) > 1
                  => sym \notin DOMAIN evalOut[1].active_pairs
            /\ sym \in DOMAIN evalOut[1].active_pairs
                  => MatchedDirections(sym) = {evalOut[1].active_pairs[sym].direction}

\* C3 witness: EURUSD was matched with buy and with sell and is not active,
\* while GBPUSD, matched with one direction, is.
C3_Witness ==
    /\ evalOut # <<>>
    /\ MatchedDirections("EURUSD") = {"buy", "sell"}
    /\ DOMAIN evalOut[1].active_pairs = {"GBPUSD"}

(***************************************************************************)
(* Spec: the Runner (run_gsignalx_automation_runner.py).  Each cycle loads *)
(* the enabled rules, fetches the signals, evaluates, persists and writes  *)
(* the status file; a reader lists the active pairs and the clock runs     *)
(* meanwhile.                                                              *)
(***************************************************************************)
MaxCycles == 2       \* cycles of run_forever that are followed

\* Runner.active_ttl_seconds, as given to Runner.__init__
active_ttl_seconds == MaxTtl

\* the elements of a finite set, one after the other
RECURSIVE SetToSeq(_)
SetToSeq(S) ==
    IF S = {} THEN <<>> ELSE LET x == CHOOSE x \in S : TRUE IN <<x>> \o SetToSeq(S \ {x})

(***************************************************************************)
(* AutomationRuleStore.  automation_rules is the sequence of its rows by   *)
(* id: AUTOINCREMENT hands out Len + 1 and never reuses an id, so a        *)
(* deleted row leaves Gone at its position.  created_at and updated_at are *)
(* not modelled.                                                           *)
(***************************************************************************)
Gone == [live |-> FALSE]

\* str.strip() on the rule names the model uses
Strip(s) == IF s = " " THEN "" ELSE IF s = " r1 " THEN "r1" ELSE s

\* the list create_rule and update_rule store: "[s.strip().upper() for s in xs if s]"
StoreNorm(xs) == NormList(xs)

\* Mutant of ListNorm: a listing returns the stored list as it is.
ListAsStored(xs) == xs

\* the list list_rules and list_all_rules return for a stored list:
\* "[s.strip().upper() for s in _json_loads(r[...], []) if s]"
ListNorm(xs) == NormList(xs)

\* the row create_rule inserts
StoredRule(user_id, name, enabled, symbols, biases, phases, timeframes) ==
    [live |-> TRUE, user_id |-> user_id, name |-> OrDefault(Strip(name), "Rule"),
     enabled |-> enabled, symbols |-> StoreNorm(symbols), biases |-> StoreNorm(biases),
     market_phases |-> StoreNorm(phases), timeframe_chain |-> StoreNorm(timeframes)]

\* create_rule: INSERT, commit, "return int(cur.lastrowid)"
create_rule(table, user_id, name, enabled, symbols, biases, phases, timeframes) ==
    [table |-> Append(table, StoredRule(user_id, name, enabled, symbols, biases,
                                        phases, timeframes)),
     ret |-> Len(table) + 1]

\* "WHERE id = ? AND user_id = ?" selects a row
Owned(table, rule_id, user_id) ==
    rule_id \in DOMAIN table /\ table[rule_id].live /\ table[rule_id].user_id = user_id

\* update_rule: supplied is the set of the arguments that are not None, v
\* holds their values.
update_rule(table, rule_id, user_id, supplied, v) ==
    IF supplied = {}
    THEN [table |-> table, ret |-> TRUE]
    ELSE IF Owned(table, rule_id, user_id)
    THEN [table |-> [table EXCEPT ![rule_id] =
                        [@ EXCEPT
                           !.name = IF "name" \in supplied
                                    THEN OrDefault(Strip(v.name), "Rule") ELSE @,
                           !.enabled = IF "enabled" \in supplied THEN v.enabled ELSE @,
                           !.symbols = IF "symbols" \in supplied
                                       THEN StoreNorm(v.symbols) ELSE @,
                           !.biases = IF "biases" \in supplied
                                      THEN StoreNorm(v.biases) ELSE @,
                           !.market_phases = IF "phases" \in supplied
                                             THEN StoreNorm(v.phases) ELSE @,
                           !.timeframe_chain = IF "timeframes" \in supplied
                                               THEN StoreNorm(v.timeframes) ELSE @]],
          ret |-> TRUE]
    ELSE [table |-> table, ret |-> FALSE]

\* delete_rule: "return cur.rowcount > 0"
delete_rule(table, rule_id, user_id) ==
    IF Owned(table, rule_id, user_id)
    THEN [table |-> [table EXCEPT ![rule_id] = Gone], ret |-> TRUE]
    ELSE [table |-> table, ret |-> FALSE]

\* list_rules(user_id): "WHERE user_id = ? ORDER BY id DESC" over the rows with
\* id <= k
RECURSIVE list_rules(_, _, _)
list_rules(table, k, user_id) ==
    IF k = 0 THEN <<>>
    ELSE IF table[k].live /\ table[k].user_id = user_id
    THEN <<[id |-> k, user_id |-> table[k].user_id, name |-> table[k].name,
            enabled |-> table[k].enabled,
            symbols |-> ListNorm(table[k].symbols),
            biases |-> ListNorm(table[k].biases),
            phases |-> ListNorm(table[k].market_phases),
            timeframes |-> ListNorm(table[k].timeframe_chain)]>>
         \o list_rules(table, k - 1, user_id)
    ELSE list_rules(table, k - 1, user_id)

\* list_all_rules(enabled_only): "WHERE enabled = 1 ORDER BY id DESC" over the
\* rows with id <= k, each JSON list normalized on the way out.
RECURSIVE list_all_rules(_, _, _)
list_all_rules(table, k, enabled_only) ==
    IF k = 0 THEN <<>>
    ELSE IF k \in DOMAIN table /\ table[k].live /\ (table[k].enabled \/ ~enabled_only)
    THEN <<[id |-> k, name |-> table[k].name, enabled |-> table[k].enabled,
            symbols |-> ListNorm(table[k].symbols),
            biases |-> ListNorm(table[k].biases),
            market_phases |-> ListNorm(table[k].market_phases),
            timeframe_chain |-> ListNorm(table[k].timeframe_chain)]>>
         \o list_all_rules(table, k - 1, enabled_only)
    ELSE list_all_rules(table, k - 1, enabled_only)

\* a load that asks for every rule, enabled or not
LoadRulesEnabledOrNot == list_all_rules(rulesDb, Len(rulesDb), FALSE)

\* Runner._load_rules: "store.list_all_rules(enabled_only=True)"
_load_rules == list_all_rules(rulesDb, Len(rulesDb), TRUE)

\* "snapshots = {s.symbol: s.raw for s in signals}" written by
\* upsert_signal_snapshots: INSERT ... ON CONFLICT(symbol) DO UPDATE
RECURSIVE upsert_signal_snapshots(_, _)
upsert_signal_snapshots(table, sigs) ==
    IF sigs = <<>> THEN table
    ELSE upsert_signal_snapshots(DictSet(table, Head(sigs).symbol, Head(sigs).raw), Tail(sigs))

\* the entries of the active_pairs dict given to replace_active_pairs (the order
\* of the entries does not show in the committed table)
PairRows(active_pairs) ==
    LET syms == SetToSeq(DOMAIN active_pairs)
    IN  [i \in DOMAIN syms |->
           [key |-> syms[i], direction |-> active_pairs[syms[i]].direction,
            ids |-> active_pairs[syms[i]].matched_rule_ids]]

\* match_rows of _persist, lines 118-130
MatchRows(match_results) ==
    [i \in DOMAIN match_results |->
       [key |-> <<match_results[i].rule_id, match_results[i].symbol>>,
        direction |-> match_results[i].direction,
        ids |-> {match_results[i].rule_id}]]

\* The locals of the previous fetch_all call are gone.
FetchForget ==
    /\ fpc' = "idle" /\ pages_fetched' = 0 /\ next_url' = None /\ next_page' = NoneInt
    /\ attempt' = 0 /\ fsignals' = <<>> /\ flog' = <<>>
    /\ fetchOut' = [state |-> "none", signals |-> <<>>]
    /\ UNCHANGED fcfg

\* "last_success: str | None = None": no timestamp text yet
NoTime == <<>>

\* "range(max(1, self.poll_seconds))": the one-second sleeps of a poll interval
poll_seconds == 2

SleepSeconds == IF poll_seconds > 1 THEN poll_seconds ELSE 1

\* a failure status that forgets the last success
FailedStatusForgets(cycle, cycle_started, last_success) ==
    [cycle |-> cycle, last_fetch_time |-> isoformat(cycle_started),
     last_successful_cycle |-> NoTime, last_error |-> "error"]

\* the status dict of the except branch: "last_error = str(e)"
FailedStatus(cycle, cycle_started, last_success) ==
    [cycle |-> cycle, last_fetch_time |-> isoformat(cycle_started),
     last_successful_cycle |-> last_success, last_error |-> "error"]

\* the status dict of the try branch: "last_error = None"
OkStatus(cycle, cycle_started, last_success, n_rules, n_signals, n_matches, n_active, fetch_meta) ==
    [cycle |-> cycle, last_fetch_time |-> isoformat(cycle_started),
     last_successful_cycle |-> last_success, last_error |-> None,
     rules_loaded |-> n_rules, signals_loaded |-> n_signals,
     matches_count |-> n_matches, active_pairs_count |-> n_active,
     fetch_meta |-> fetch_meta]

\* a sleep loop that never looks at the flag
StopNeverSeen(stop) == FALSE

\* "if self.stop_requested: break" at the head of each one-second sleep
StopSeen(stop) == stop

\* evaluation and persistence go ahead while the fetch is still under way
AtEvaluateEarly == rpc = "fetch" /\ fpc # "idle"

\* _fetch_signals has returned and evaluate_rules is the next statement
AtEvaluate == rpc = "fetch" /\ fetchOut.state = "returned"

\* "while not self.stop_requested: cycle += 1; cycle_started = now"
RunnerBeginCycle ==
    /\ rpc = "loop" /\ ~stop_requested
    /\ cyc.n < MaxCycles
    /\ cyc' = [cyc EXCEPT !.n = @ + 1, !.cycle_started = now]
    /\ rpc' = "load_rules"
    /\ FetchForget
    /\ rules' = <<>> /\ signals' = <<>> /\ evalOut' = <<>>
    /\ obs' = <<>>
    /\ UNCHANGED <<rule, signal, result, now, pairsDb, matchesDb, snapshotsDb, txn,
                   status, hist, runVars>>

\* the loop test fails: "Automation runner stopped."
RunnerExit ==
    /\ rpc = "loop" /\ stop_requested
    /\ rpc' = "stopped"
    /\ obs' = <<>>
    /\ UNCHANGED <<evalVars, fetchVars, now, pairsDb, matchesDb, snapshotsDb, txn, cyc,
                   status, hist, runVars>>

\* "rules = self._load_rules()"
RunnerLoadRules ==
    /\ rpc = "load_rules"
    /\ rules' = _load_rules
    /\ hist' = [hist EXCEPT !.disabled_at_load =
                               {k \in DOMAIN rulesDb : ~rulesDb[k].enabled}]
    /\ rpc' = "fetch"
    /\ obs' = <<>>
    /\ UNCHANGED <<rule, signal, result, signals, evalOut, fetchVars, now, pairsDb,
                   matchesDb, snapshotsDb, txn, cyc, status, runVars>>

\* "signals, fetch_meta = self._fetch_signals()": fetch_all runs
RunnerFetch ==
    /\ rpc = "fetch"
    /\ \/ FetchBegin
       \/ FetchLoopTest
       \/ AttemptFail
       \/ FetchExhausted
       \/ \E payload \in {ListPayload(<<>>), ListPayload(<<ItemA>>),
                          DictPayload(<<ItemB>>, NextUrl, NoneInt, NoneInt)} :
             AttemptOk(payload)
    /\ obs' = <<>>
    /\ UNCHANGED <<evalVars, now, pairsDb, matchesDb, snapshotsDb, txn, rpc, cyc,
                   status, hist, runVars>>

\* fetch_all returned: "match_results, active_pairs = evaluate_rules(signals, rules)"
RunnerEvaluate ==
    /\ AtEvaluate
    /\ signals' = fetchOut.signals
    /\ evalOut' = <<evaluate_rules(fetchOut.signals, rules)>>
    /\ rpc' = "snapshots"
    /\ obs' = <<>>
    /\ UNCHANGED <<rule, signal, result, rules, fetchVars, now, pairsDb, matchesDb,
                   snapshotsDb, txn, cyc, status, hist, runVars>>

\* fetch_all raised: the except branch of run_forever writes the status file
\* and nothing else.
RunnerCycleFailed ==
    /\ rpc = "fetch" /\ fetchOut.state = "raised"
    /\ cyc' = [cyc EXCEPT !.last_error = "error", !.slept = 0]
    /\ status' = <<FailedStatus(cyc.n, cyc.cycle_started, cyc.last_success)>>
    /\ rpc' = "sleep"
    /\ obs' = <<>>
    /\ UNCHANGED <<evalVars, fetchVars, now, pairsDb, matchesDb, snapshotsDb, txn,
                   hist, runVars>>

\* _persist: "state.upsert_signal_snapshots(snapshots)", committed by itself
RunnerUpsertSnapshots ==
    /\ rpc = "snapshots"
    /\ snapshotsDb' = upsert_signal_snapshots(snapshotsDb, signals)
    /\ rpc' = "replace_pairs"
    /\ obs' = <<>>
    /\ UNCHANGED <<evalVars, fetchVars, now, pairsDb, matchesDb, txn, cyc, status,
                   hist, runVars>>

\* _persist: "state.replace_active_pairs(active_pairs, ttl_seconds=...)" is called
RunnerReplacePairs ==
    /\ rpc = "replace_pairs"
    /\ txn' = BeginReplace("pairs", PairRows(evalOut[1].active_pairs), active_ttl_seconds)
    /\ rpc' = "in_pairs"
    /\ obs' = <<>>
    /\ UNCHANGED <<evalVars, fetchVars, now, pairsDb, matchesDb, snapshotsDb, cyc,
                   status, hist, runVars>>

\* _persist: replace_active_pairs returned, "state.replace_rule_matches(...)"
RunnerReplaceMatches ==
    /\ rpc = "in_pairs" /\ txn.phase = "done"
    /\ txn' = BeginReplace("matches", MatchRows(evalOut[1].results), active_ttl_seconds)
    /\ rpc' = "in_matches"
    /\ obs' = <<>>
    /\ UNCHANGED <<evalVars, fetchVars, now, pairsDb, matchesDb, snapshotsDb, cyc,
                   status, hist, runVars>>

\* _persist returned: last_success, the status record of a successful cycle
RunnerCycleOk ==
    /\ rpc = "in_matches" /\ txn.phase = "done"
    /\ txn' = NoTxn
    /\ cyc' = [cyc EXCEPT !.last_success = isoformat(now), !.last_error = None,
                          !.slept = 0]
    /\ status' = <<OkStatus(cyc.n, cyc.cycle_started, isoformat(now), Len(rules),
                            Len(signals), Len(evalOut[1].results),
                            Cardinality(DOMAIN evalOut[1].active_pairs),
                            fetchOut.meta)>>
    /\ hist' = [hist EXCEPT !.left = <<snapshotsDb, pairsDb, matchesDb>>,
                            !.last_ok = status'[1].last_successful_cycle,
                            !.ok_rules = rules, !.ok_signals = signals]
    /\ rpc' = "sleep"
    /\ obs' = <<>>
    /\ UNCHANGED <<evalVars, fetchVars, now, pairsDb, matchesDb, snapshotsDb, runVars>>

\* the head of the sleep loop: the range is used up, or a stop is seen and
\* the loop breaks, or one more "time.sleep(1)" begins
RunnerSleepCheck ==
    /\ rpc = "sleep"
    /\ rpc' = IF cyc.slept >= SleepSeconds \/ StopSeen(stop_requested)
              THEN "loop"
              ELSE "sleeping"
    /\ obs' = <<>>
    /\ UNCHANGED <<evalVars, fetchVars, now, pairsDb, matchesDb, snapshotsDb, txn, cyc,
                   status, hist, runVars>>

\* "time.sleep(1)" returns: a second has passed on the clock (which stops at
\* MaxTime)
RunnerSleepSecond ==
    /\ rpc = "sleeping"
    /\ now' = IF now < MaxTime THEN now + 1 ELSE now
    /\ cyc' = [cyc EXCEPT !.slept = @ + 1]
    /\ rpc' = "sleep"
    /\ obs' = <<>>
    /\ UNCHANGED <<evalVars, fetchVars, pairsDb, matchesDb, snapshotsDb, txn,
                   status, hist, runVars>>

\* Runner.request_stop, from the signal handler
request_stop ==
    /\ ~stop_requested
    /\ stop_requested' = TRUE
    /\ hist' = [hist EXCEPT !.stop_at = rpc]
    /\ obs' = <<>>
    /\ UNCHANGED <<evalVars, fetchVars, now, pairsDb, matchesDb, snapshotsDb, txn, rpc,
                   cyc, status, rulesDb, ruleOut>>

\* The dashboard disables a rule while the Runner runs:
\* update_rule(rule_id, user_id, enabled=False)
DisableRule ==
    /\ \E rule_id \in DOMAIN rulesDb :
          /\ rulesDb[rule_id].enabled
          /\ rulesDb' = update_rule(rulesDb, rule_id, rulesDb[rule_id].user_id,
                                    {"enabled"}, [enabled |-> FALSE]).table
    /\ obs' = <<>>
    /\ UNCHANGED <<evalVars, fetchVars, now, pairsDb, matchesDb, snapshotsDb, txn, rpc,
                   cyc, status, hist, ruleOut, stop_requested>>

\* The clock as the Runner's cycles see it: a cycle is short against the poll
\* interval, so at the granularity of one second the clock advances in the
\* one-second sleeps between cycles, and on once the Runner has stopped.
RunnerTick ==
    /\ rpc = "stopped"
    /\ Tick

\* a rule of user "admin" as create_rule stores it
RuleRow(name, enabled, symbols, biases, chain) ==
    StoredRule("admin", name, enabled, symbols, biases, <<>>, chain)

Init ==
    /\ EvalIdle /\ fcfg = DefaultFetchConfig /\ FetchIdle
    /\ now = 0
    /\ pairsDb = EmptyTable /\ matchesDb = EmptyTable /\ snapshotsDb = EmptyTable
    /\ txn = NoTxn
    /\ rpc = "loop"
    /\ cyc = [n |-> 0, cycle_started |-> 0, last_success |-> NoTime, last_error |-> None,
              slept |-> 0]
    /\ status = <<>>
    /\ obs = <<>>
    /\ hist = [published |-> FALSE, given |-> {}, expiry |-> 0, calls |-> 0,
               left |-> <<EmptyTable, EmptyTable, EmptyTable>>,
               last_ok |-> NoTime, stop_at |-> "never", disabled_at_load |-> {},
               ok_rules |-> <<>>, ok_signals |-> <<>>]
    /\ rulesDb \in { <<RuleRow("any", TRUE, <<>>, <<>>, <<"d1">>)>>,
                     <<RuleRow("eur", TRUE, <<" eurusd ">>, <<"bullish">>, <<"D1">>),
                       RuleRow("off", FALSE, <<>>, <<>>, <<"D1">>)>> }
    /\ ruleOut = <<>>
    /\ stop_requested = FALSE

Next ==
    \/ RunnerBeginCycle
    \/ RunnerExit
    \/ RunnerLoadRules
    \/ RunnerFetch
    \/ RunnerEvaluate
    \/ RunnerCycleFailed
    \/ RunnerUpsertSnapshots
    \/ RunnerReplacePairs
    \/ RunnerReplaceMatches
    \/ RunnerCycleOk
    \/ RunnerSleepCheck
    \/ RunnerSleepSecond
    \/ request_stop
    \/ StepDelete /\ UNCHANGED <<evalVars, fetchVars, runVars>>
    \/ StepInsertRow /\ UNCHANGED <<evalVars, fetchVars, runVars>>
    \/ StepPurge /\ UNCHANGED <<evalVars, fetchVars, runVars>>
    \/ StepCommit /\ UNCHANGED <<evalVars, fetchVars, runVars>>
    \/ ReaderList /\ UNCHANGED <<evalVars, fetchVars, runVars>>
    \/ RunnerTick /\ UNCHANGED <<evalVars, fetchVars, runVars>>

Spec == Init /\ [][Next]_vars

\* the last page request of the running cycle's fetch used up its attempts
\* without a success
FetchFailedTerminally ==
    /\ flog # <<>> /\ fpc # "get"
    /\ ~flog[Len(flog)].ok /\ flog[Len(flog)].tries = fcfg.max_retries

\* C5: once a cycle's fetch has failed terminally, the Runner makes no store
\* write in that cycle: no transaction is begun, the signal snapshots, active
\* pairs and rule matches are what the last successful cycle left, and the
\* cycle ends with a failure status, not with a publish of an empty set.
C5_FailedFetchWritesNothing ==
    FetchFailedTerminally =>
        /\ <<snapshotsDb, pairsDb, matchesDb>> = hist.left
        /\ txn = NoTxn
        /\ rpc \in {"fetch", "sleep", "sleeping", "loop", "stopped"}
        /\ rpc # "fetch" => /\ status # <<>>
                            /\ status[1].cycle = cyc.n
                            /\ status[1].last_error # None

\* C5 witness: a cycle has published EURUSD, and the next cycle's fetch failed
\* terminally on its second page and ended with a failure status.
C5_Witness ==
    /\ FetchFailedTerminally /\ Len(flog) = 2
    /\ rpc = "sleep" /\ cyc.n = 2
    /\ "EURUSD" \in DOMAIN pairsDb /\ matchesDb # EmptyTable /\ snapshotsDb # EmptyTable

\* The steps of run_forever's own thread other than the evaluate_rules call,
\* the store statements of _persist included.
RunnerStep ==
    \/ RunnerBeginCycle
    \/ RunnerExit
    \/ RunnerLoadRules
    \/ RunnerFetch
    \/ RunnerCycleFailed
    \/ RunnerUpsertSnapshots
    \/ RunnerReplacePairs
    \/ RunnerReplaceMatches
    \/ RunnerCycleOk
    \/ RunnerSleepCheck
    \/ RunnerSleepSecond
    \/ StepDelete /\ UNCHANGED <<evalVars, fetchVars, runVars>>
    \/ StepInsertRow /\ UNCHANGED <<evalVars, fetchVars, runVars>>
    \/ StepPurge /\ UNCHANGED <<evalVars, fetchVars, runVars>>
    \/ StepCommit /\ UNCHANGED <<evalVars, fetchVars, runVars>>

\* The Runner under a scheduler that keeps its thread running: a step of
\* run_forever that stays possible is taken. For the evaluate_rules call,
\* whose only step leaves AtEvaluate, that is: the thread does not stay at
\* AtEvaluate for ever.
FairSpec == Init /\ [][Next]_vars /\ WF_vars(RunnerStep) /\ []<>~AtEvaluate

\* the Runner is between "cycle += 1" and the write of that cycle's status
CyclePositions ==
    {"load_rules", "fetch", "snapshots", "replace_pairs", "in_pairs", "in_matches"}

InCycle == rpc \in CyclePositions

\* the keys of the two status dicts that the model carries
OkStatusKeys ==
    {"cycle", "last_fetch_time", "last_successful_cycle", "last_error", "rules_loaded",
     "signals_loaded", "matches_count", "active_pairs_count", "fetch_meta"}

FailedStatusKeys == {"cycle", "last_fetch_time", "last_successful_cycle", "last_error"}

C16_StatusOfEachCycle ==
    /\ cyc.n = 0 => status = <<>>
    /\ (InCycle /\ cyc.n = 1) => status = <<>>
    /\ (InCycle /\ cyc.n > 1) => (status # <<>> /\ status[1].cycle = cyc.n - 1)
    /\ (~InCycle /\ cyc.n > 0) => (status # <<>> /\ status[1].cycle = cyc.n)
    /\ status # <<>> =>
          IF status[1].last_error = None
          THEN /\ DOMAIN status[1] = OkStatusKeys
               /\ status[1].last_successful_cycle # NoTime
               /\ status[1].last_successful_cycle = hist.last_ok
          ELSE /\ DOMAIN status[1] = FailedStatusKeys
               /\ status[1].last_successful_cycle = hist.last_ok
    /\ rpc = "stopped" => stop_requested

\* C16: every cycle, successful or failed, writes one complete status whose
\* cycle number is one more than the previous cycle's; a failed cycle's
\* status sets last_error and keeps the last_successful_cycle of the most
\* recent successful cycle, a successful cycle's status has last_error
\* cleared; a failed cycle does not end the loop: unless a stop is requested,
\* the next cycle begins after the poll sleep.
C16_FailedCycleKeepsLooping ==
    /\ []C16_StatusOfEachCycle
    /\ \A n \in 1..(MaxCycles - 1) :
          (rpc = "sleep" /\ cyc.n = n /\ status # <<>> /\ status[1].last_error # None)
              ~> (stop_requested \/ (cyc.n = n + 1 /\ rpc = "load_rules"))

\* C16 witness: the second cycle failed after a successful first one, its
\* status carries the first cycle's success time, and the poll sleep has run
\* to its end without a stop.
C16_Witness ==
    /\ rpc = "loop" /\ cyc.n = 2 /\ ~stop_requested /\ cyc.slept = SleepSeconds
    /\ status[1].last_error # None
    /\ status[1].last_successful_cycle # NoTime

\* a stop was requested while a cycle was running
StoppedInCycle == hist.stop_at \in CyclePositions

C17_StopSafety ==
    /\ StoppedInCycle =>
          /\ rpc = "stopped" => (status # <<>> /\ status[1].cycle = cyc.n)
          /\ rpc \in {"sleep", "loop", "stopped"} => cyc.slept = 0
          /\ rpc # "sleeping"
    /\ stop_requested = (hist.stop_at # "never")

\* C17: once request_stop has been called, run_forever starts no new cycle
\* and terminates; a stop requested during the poll sleep is seen at the next
\* one-second check, which ends the sleep; a stop requested during a cycle
\* lets the cycle finish (its status is written) and the Runner then exits
\* without sleeping at all.
C17_StopEndsTheLoop ==
    /\ [][stop_requested => cyc'.n = cyc.n]_vars
    /\ [][(stop_requested /\ rpc = "sleep") => rpc' # "sleeping"]_vars
    /\ []C17_StopSafety
    /\ stop_requested ~> (rpc = "stopped")

\* C17 witness: the stop came in the first one-second sleep after the first
\* cycle, and the Runner has stopped with the rest of the poll interval unslept.
C17_Witness ==
    /\ rpc = "stopped" /\ hist.stop_at = "sleeping"
    /\ cyc.n = 1 /\ cyc.slept = 1 /\ cyc.slept < SleepSeconds

\* the last cycle was successful and its status has been written
AfterSuccessfulCycle ==
    /\ rpc \in {"sleep", "sleeping", "loop", "stopped"}
    /\ status # <<>> /\ status[1].last_error = None

\* the symbols of the signals the cycle fetched
CycleSymbols == {signals[i].symbol : i \in DOMAIN signals}

\* the active pairs and the rule matches hold only the last successful
\* cycle's results
PairsAndMatchesOfThisCycle ==
    AfterSuccessfulCycle =>
        /\ DOMAIN pairsDb \subseteq DOMAIN evalOut[1].active_pairs
        /\ DOMAIN matchesDb \subseteq
              {<<evalOut[1].results[i].rule_id, evalOut[1].results[i].symbol>> :
                 i \in DOMAIN evalOut[1].results}

\* C20: after a successful cycle the signal snapshots, the active pairs and
\* the rule matches hold only that cycle's data: nothing is stored for a
\* symbol that is absent from the cycle's signals or results.
C20_OnlyThisCyclesData ==
    /\ PairsAndMatchesOfThisCycle
    /\ AfterSuccessfulCycle => DOMAIN snapshotsDb \subseteq CycleSymbols

\* the Runner with a dashboard user who disables rules at any moment
NextDashboard ==
    \/ Next
    \/ DisableRule

SpecDashboard == Init /\ [][NextDashboard]_vars

\* C22: the Runner's loaded rules are all enabled; evaluate_rule gives no
\* match for a disabled rule of the store on any fetched signal; and after
\* a successful cycle no published active pair names a rule that was
\* disabled when that cycle loaded its rules.
C22_DisabledRuleNeverPublished ==
    /\ \A i \in DOMAIN rules : rules[i].enabled
    /\ \A i \in DOMAIN LoadRulesEnabledOrNot : \A j \in DOMAIN signals :
          ~LoadRulesEnabledOrNot[i].enabled
              => ~evaluate_rule(LoadRulesEnabledOrNot[i], signals[j]).matched
    /\ AfterSuccessfulCycle =>
          \A sym \in DOMAIN pairsDb :
              \A k \in hist.disabled_at_load : k \notin pairsDb[sym].ids

\* C22 witness: the rule that published EURUSD in the first cycle was
\* disabled before the second cycle loaded its rules; the second cycle
\* fetched a signal that rule would match, succeeded, and EURUSD is no
\* longer an active pair.
C22_Witness ==
    /\ AfterSuccessfulCycle /\ cyc.n = 2
    /\ hist.disabled_at_load = {1} /\ Len(rulesDb) = 1
    /\ \E j \in DOMAIN signals :
          /\ signals[j].symbol = "EURUSD"
          /\ evaluate_rule([LoadRulesEnabledOrNot[1] EXCEPT !.enabled = TRUE],
                           signals[j]).matched
    /\ "EURUSD" \notin DOMAIN pairsDb /\ pairsDb = EmptyTable

(***************************************************************************)
(* SpecRuleStore: the dashboard's users create, update, delete and list    *)
(* rules through AutomationRuleStore.                                      *)
(***************************************************************************)
MaxRuleRows == 2     \* rules created in one behaviour

Users == {"admin", "bob"}

RuleArgs(name, enabled, symbols, biases, phases, timeframes) ==
    [name |-> name, enabled |-> enabled, symbols |-> symbols, biases |-> biases,
     phases |-> phases, timeframes |-> timeframes]

\* the arguments given to create_rule: blanks, empty entries, lower case and
\* duplicates among the list entries
CreateArgs ==
    { RuleArgs(" r1 ", TRUE, <<" eurusd ", "", "EURUSD">>, <<"bullish">>, <<"range">>,
               <<"d1", " h4">>),
      RuleArgs(" ", FALSE, <<" ", "gbpusd">>, <<"BEARISH", "BEARISH">>, <<>>, <<"">>) }

\* the values update_rule is given for the arguments it is given
UpdateValues ==
    RuleArgs(" ", FALSE, <<"gbpusd", " ">>, <<"bearish ">>, <<>>, <<" h4">>)

SuppliedSets ==
    { {}, {"enabled"},
      {"name", "enabled", "symbols", "biases", "phases", "timeframes"} }

CreateRule(user_id, a) ==
    /\ Len(rulesDb) < MaxRuleRows
    /\ LET out == create_rule(rulesDb, user_id, a.name, a.enabled, a.symbols, a.biases,
                              a.phases, a.timeframes)
       IN  /\ rulesDb' = out.table
           /\ ruleOut' = <<[op |-> "create", user_id |-> user_id, ret |-> out.ret,
                            created |-> <<[id |-> out.ret, user_id |-> user_id,
                                           args |-> a]>>]>>
    /\ UNCHANGED stop_requested

UpdateRule(rule_id, user_id, supplied) ==
    /\ LET out == update_rule(rulesDb, rule_id, user_id, supplied, UpdateValues)
       IN  /\ rulesDb' = out.table
           /\ ruleOut' = <<[op |-> "update", user_id |-> user_id, rule_id |-> rule_id,
                            supplied |-> supplied, ret |-> out.ret,
                            owned |-> Owned(rulesDb, rule_id, user_id),
                            unchanged |-> (out.table = rulesDb), created |-> <<>>]>>
    /\ UNCHANGED stop_requested

DeleteRule(rule_id, user_id) ==
    /\ LET out == delete_rule(rulesDb, rule_id, user_id)
       IN  /\ rulesDb' = out.table
           /\ ruleOut' = <<[op |-> "delete", user_id |-> user_id, rule_id |-> rule_id,
                            supplied |-> {}, ret |-> out.ret,
                            owned |-> Owned(rulesDb, rule_id, user_id),
                            unchanged |-> (out.table = rulesDb), created |-> <<>>]>>
    /\ UNCHANGED stop_requested

ListRules(user_id) ==
    /\ ruleOut' = <<[op |-> "list", user_id |-> user_id,
                     rows |-> list_rules(rulesDb, Len(rulesDb), user_id),
                     created |-> IF ruleOut = <<>> THEN <<>> ELSE ruleOut[1].created]>>
    /\ UNCHANGED <<rulesDb, stop_requested>>

InitRuleStore ==
    /\ EvalIdle /\ fcfg = DefaultFetchConfig /\ FetchIdle /\ StoreIdle

NextRuleStore ==
    \/ (\E u \in Users, a \in CreateArgs : CreateRule(u, a))
          /\ UNCHANGED <<evalVars, fetchVars, storeVars>>
    \/ (\E id \in 1..(Len(rulesDb) + 1), u \in Users, f \in SuppliedSets : UpdateRule(id, u, f))
          /\ UNCHANGED <<evalVars, fetchVars, storeVars>>
    \/ (\E id \in 1..(Len(rulesDb) + 1), u \in Users : DeleteRule(id, u))
          /\ UNCHANGED <<evalVars, fetchVars, storeVars>>
    \/ (\E u \in Users : ListRules(u))
          /\ UNCHANGED <<evalVars, fetchVars, storeVars>>

SpecRuleStore == InitRuleStore /\ [][NextRuleStore]_vars

\* C15: update_rule and delete_rule called with an id that does not exist or
\* belongs to another user return false and leave every stored rule unchanged,
\* whatever fields update_rule is given, none at all included.
C15_ForeignMutationNotFound ==
    (ruleOut # <<>> /\ ruleOut[1].op \in {"update", "delete"} /\ ~ruleOut[1].owned)
        => (ruleOut[1].ret = FALSE /\ ruleOut[1].unchanged)

\* the input list after trimming and upper-casing each entry and dropping the
\* entries that are empty
TrimUpperDrop(xs) ==
    SelectSeq([i \in DOMAIN xs |-> StripUpper(xs[i])], LAMBDA x : x # "")

\* C19: a list_rules call of the creating user that follows create_rule
\* returns the created rule with each of its four lists equal to the input
\* trimmed, upper-cased and without empty entries, order and duplicates kept;
\* and a rule created from the lists of any listed rule would be listed with
\* the same lists again.
C19_CreateListRoundTrip ==
    (ruleOut # <<>> /\ ruleOut[1].op = "list") =>
        /\ (ruleOut[1].created # <<>> /\ ruleOut[1].created[1].user_id = ruleOut[1].user_id)
              => \E i \in DOMAIN ruleOut[1].rows :
                    LET row == ruleOut[1].rows[i]
                        a == ruleOut[1].created[1].args
                    IN  /\ row.id = ruleOut[1].created[1].id
                        /\ row.symbols = TrimUpperDrop(a.symbols)
                        /\ row.biases = TrimUpperDrop(a.biases)
                        /\ row.phases = TrimUpperDrop(a.phases)
                        /\ row.timeframes = TrimUpperDrop(a.timeframes)
        /\ \A i \in DOMAIN ruleOut[1].rows :
              LET row == ruleOut[1].rows[i] IN
              /\ ListNorm(StoreNorm(row.symbols)) = row.symbols
              /\ ListNorm(StoreNorm(row.biases)) = row.biases
              /\ ListNorm(StoreNorm(row.phases)) = row.phases
              /\ ListNorm(StoreNorm(row.timeframes)) = row.timeframes

\* C19 witness: a rule created with a blank entry, an empty entry and a
\* duplicate among its lists was listed by its user right after.
C19_Witness ==
    /\ ruleOut # <<>> /\ ruleOut[1].op = "list" /\ ruleOut[1].created # <<>>
    /\ ruleOut[1].created[1].user_id = ruleOut[1].user_id
    /\ ruleOut[1].created[1].args.symbols = <<" ", "gbpusd">>
    /\ ruleOut[1].created[1].id = 2
    /\ ruleOut[1].rows[1].symbols = <<"GBPUSD">>
    /\ ruleOut[1].rows[1].biases = <<"BEARISH", "BEARISH">>
    /\ ruleOut[1].rows[1].timeframes = <<>>

(***************************************************************************)
(* SpecParse: parse_signals applied to the payloads a JSON response can    *)
(* hold.                                                                   *)
(***************************************************************************)
MaxItems == 2        \* longest list of items in a payload

\* a list item that is not a JSON object (null, a scalar, a list)
NotADict == [is_dict |-> FALSE]

\* JSON objects as items: the symbol missing, null, blank, empty or a name;
\* bias and the timeframe signals missing, null or text
ParseItemsUniverse ==
    {NotADict}
    \cup {RawItem(sy, "bullish", [t \in {"d1"} |-> "buy"]) :
            sy \in {Missing, None, "", " ", " eurusd ", "GBPUSD"}}
    \cup {RawItem("gbpusd", b, [t \in {" h4"} |-> v]) :
            b \in {Missing, None}, v \in {Missing, None}}
    \cup {RawItem(" eurusd ", None, <<>>)}

\* a dict payload whose candidate keys hold the given values
KeyedPayload(body) ==
    [shape |-> "dict", top |-> <<>>, body |-> body, next |-> None,
     page |-> NoneInt, total_pages |-> NoneInt, pages |-> NoneInt]

NotAList == [is_list |-> FALSE, items |-> <<>>]

ParsePayloads ==
    {OtherPayload, KeyedPayload(<<>>)}
    \cup {ListPayload(items) : items \in SeqsUpTo(ParseItemsUniverse, MaxItems)}
    \cup {KeyedPayload([k \in {"symbols"} |-> [is_list |-> TRUE, items |-> items]]) :
            items \in SeqsUpTo(ParseItemsUniverse, 1)}
    \cup {KeyedPayload([k \in {"data", "items"} |->
                          IF k = "data" THEN NotAList
                          ELSE [is_list |-> TRUE, items |-> <<ItemA>>]]),
          KeyedPayload([k \in {"results", "symbols"} |->
                          IF k = "symbols" THEN NotAList
                          ELSE [is_list |-> TRUE, items |-> <<ItemB, NotADict>>]])}

\* the value parse_signals iterates over: "items", when it is a list
ItemsOf(payload) ==
    IF payload.shape = "list" THEN payload.top
    ELSE IF payload.shape = "dict" /\ FirstKey(payload) # 0
              /\ payload.body[ItemKeys[FirstKey(payload)]].is_list
    THEN payload.body[ItemKeys[FirstKey(payload)]].items
    ELSE <<>>

\* "isinstance(item, dict)": the items parse_signal is called with
IsDictItem(it) == it.is_dict

\* item.get(...) raises AttributeError when item is not a dict
ParseRaises(payload) ==
    \E i \in DOMAIN ItemsOf(payload) :
        LET it == ItemsOf(payload)[i] IN IsDictItem(it) /\ ~it.is_dict

\* one call parse_signals(payload) and its outcome
ParseCall(payload) ==
    /\ flog' = <<[payload |-> payload, raised |-> ParseRaises(payload),
                  got |-> parse_signals(payload)]>>
    /\ UNCHANGED <<fcfg, fpc, pages_fetched, next_url, next_page, attempt, fsignals,
                   fetchOut>>
    /\ UNCHANGED <<evalVars, storeVars, runVars>>

InitParse == EvalIdle /\ StoreIdle /\ fcfg = DefaultFetchConfig /\ FetchIdle

NextParse == \E payload \in ParsePayloads : ParseCall(payload)

SpecParse == InitParse /\ [][NextParse]_vars

\* an item with a usable symbol: a JSON object whose "symbol" is present, not
\* null and not blank
UsableSymbol(it) ==
    /\ it.is_dict
    /\ it.symbol \notin {Missing, None}
    /\ StripUpper(it.symbol) # ""

\* C18: parse_signals returns a list without raising for every payload; the
\* Signals returned are those of the items that are objects with a usable
\* symbol, in order, every other item being dropped; every returned symbol
\* is non-empty, trimmed and upper-cased.
C18_ParseTotalDropsSymbolless ==
    flog # <<>> =>
        LET call == flog[1]
            kept == SelectSeq(ItemsOf(call.payload), UsableSymbol)
        IN  /\ ~call.raised
            /\ \A i \in DOMAIN call.got :
                  /\ call.got[i].symbol # ""
                  /\ StripUpper(call.got[i].symbol) = call.got[i].symbol
            /\ Len(call.got) = Len(kept)
            /\ \A i \in DOMAIN call.got : call.got[i].raw = kept[i]

\* what parse_signals does guarantee: no raise, every returned symbol
\* non-empty, trimmed and upper-cased, and every item that is not an object
\* or whose symbol is missing or blank dropped
ParseOutcomeSound ==
    flog # <<>> =>
        LET call == flog[1]
        IN  /\ ~call.raised
            /\ \A i \in DOMAIN call.got :
                  /\ call.got[i].symbol # ""
                  /\ StripUpper(call.got[i].symbol) = call.got[i].symbol
                  /\ call.got[i].raw.is_dict
                  /\ call.got[i].raw.symbol # Missing

(***************************************************************************)
(* SpecRuleTwice: evaluate_rule called twice on the same rule and signal,  *)
(* the wall clock moving in between.                                       *)
(***************************************************************************)
TwiceRules ==
    {r \in RuleInputs :
        /\ r.symbols = <<>> /\ r.market_phases = <<>>
        /\ r.timeframe_chain \in {<<>>, <<"d1">>, <<"", "d1">>}}

TwiceSignals ==
    {s \in SignalInputs :
        /\ s.symbol = "EURUSD" /\ s.market_phase = None
        /\ s.bias \in {"BULLISH", "NEUTRAL"}
        /\ DOMAIN s.timeframes \subseteq {"D1"}}

\* a rule whose timeframe_chain is normalized in place
RuleAfterNormalized(r) == [r EXCEPT !.timeframe_chain = NormList(@)]

\* the rule object after evaluate_rule returned: the dataclass is frozen,
\* debug takes list(...) copies and tf_chain is a new list
RuleAfter(r) == r

\* the signal object after evaluate_rule returned: only read
SignalAfter(s) == s

\* one call of evaluate_rule and what it returned; matched_at is the clock
\* reading taken at the top of the call
CallRecord(r, s, t) ==
    [rule_in |-> r, signal_in |-> s, out |-> evaluate_rule(r, s), matched_at |-> t]

EvaluateOnce(s) ==
    /\ result = <<>>
    /\ result' = <<CallRecord(rule, s, now)>>
    /\ rule' = RuleAfter(rule)
    /\ signal' = SignalAfter(s)
    /\ UNCHANGED <<rules, signals, evalOut, fetchVars, storeVars, runVars>>

\* the second call is given the objects the first call was given
EvaluateAgain ==
    /\ Len(result) = 1
    /\ result' = result \o <<CallRecord(rule, signal, now)>>
    /\ rule' = RuleAfter(rule)
    /\ signal' = SignalAfter(signal)
    /\ UNCHANGED <<rules, signals, evalOut, fetchVars, storeVars, runVars>>

\* time passes between the two calls
TwiceTick ==
    /\ Len(result) = 1
    /\ Tick
    /\ UNCHANGED <<evalVars, fetchVars, runVars>>

InitRuleTwice ==
    /\ rule \in TwiceRules /\ signal = DefaultSignal /\ result = <<>>
    /\ rules = <<>> /\ signals = <<>> /\ evalOut = <<>>
    /\ fcfg = DefaultFetchConfig /\ FetchIdle /\ StoreIdle

NextRuleTwice ==
    \/ \E s \in TwiceSignals : EvaluateOnce(s)
    \/ EvaluateAgain
    \/ TwiceTick

SpecRuleTwice == InitRuleTwice /\ [][NextRuleTwice]_vars

LastResponse == flog # <<>> /\ flog[Len(flog)].payload # <<>>

Resp == flog[Len(flog)].payload[1]

\* the request of the running iteration
LastRequest == flog[Len(flog)]

\* "self._get_with_retries(next_url, params=self._page_params(next_page))"
RequestAsDetected ==
    fpc = "get" =>
        /\ LastRequest.url = next_url
        /\ LastRequest.params = _page_params(next_page, fcfg.page_size)
        /\ LastRequest.params.has_page = (next_page # NoneInt)

\* a bare-list response ends pagination
ListEndsPagination ==
    (LastResponse /\ Resp.shape = "list") => (fpc = "done" /\ next_url = None)

\* C23 as stated: after an object response whose next is a non-empty string
\* the next request goes to exactly that string, without a page number; a
\* bare list ends pagination.
C23_NextStringFollowed ==
    /\ RequestAsDetected
    /\ ListEndsPagination
    /\ (LastResponse /\ Resp.shape = "dict" /\ Resp.next # None /\ Resp.next # "") =>
          /\ next_url = Resp.next
          /\ next_page = NoneInt

\* C23 amended: after an object response whose next is a string that is not
\* blank, the next request goes to that string stripped of surrounding
\* whitespace and carries no page number, whatever page/total_pages and the
\* item count say, and fetch_all goes on unless max_pages is reached; a bare
\* list ends pagination.
C23_NonBlankNextFollowed ==
    /\ RequestAsDetected
    /\ ListEndsPagination
    /\ (LastResponse /\ Resp.shape = "dict" /\ Resp.next # None
          /\ UrlStrip(Resp.next) # "") =>
          /\ next_url = UrlStrip(Resp.next)
          /\ next_page = NoneInt
          /\ fpc = "done" => pages_fetched >= fcfg.max_pages

\* C23 witness: a full page that reports page 1 of 2 and a next URL with
\* surrounding blanks; fetch_all is about to request the stripped URL.
C23_Witness ==
    /\ LastResponse /\ fpc = "loop"
    /\ Resp.next = NextUrlPadded /\ Resp.page = 1 /\ Resp.total_pages = 2
    /\ fcfg.page_size = 1
    /\ next_url = NextUrl /\ next_page = NoneInt

\* C24: after an object response without a next string that carries integer
\* page and total_pages (or pages), the fetcher requests page + 1 at the same
\* URL while page < total_pages, and stops once page >= total_pages.
C24_PageTotalsDecide ==
    (LastResponse /\ Resp.shape = "dict" /\ Resp.next = None
        /\ Resp.page # NoneInt /\ TotalPages(Resp) # NoneInt) =>
        IF Resp.page < TotalPages(Resp)
        THEN /\ next_url = LastRequest.url
             /\ next_page = Resp.page + 1
             /\ fpc = "done" => pages_fetched >= fcfg.max_pages
        ELSE /\ next_url = None
             /\ fpc = "done"

\* The half of C24 that the code keeps: while page < total_pages the next
\* request is page + 1 at the same URL.
PageBelowTotalContinues ==
    (LastResponse /\ Resp.shape = "dict" /\ Resp.next = None
        /\ Resp.page # NoneInt /\ TotalPages(Resp) # NoneInt
        /\ Resp.page < TotalPages(Resp)) =>
        /\ next_url = LastRequest.url
        /\ next_page = Resp.page + 1
        /\ fpc = "done" => pages_fetched >= fcfg.max_pages

\* the fallback case of _detect_next: an object response with no usable next
\* string and no page/total_pages continuation
FallbackCase ==
    /\ LastResponse /\ Resp.shape = "dict"
    /\ (Resp.next = None \/ UrlStrip(Resp.next) = "")
    /\ ~MorePages(Resp)

\* the number of items under the first candidate key present, NoneInt when no
\* key is present or its value is not a list
RespItemCount ==
    IF FirstKey(Resp) = 0 THEN NoneInt
    ELSE IF ~Resp.body[ItemKeys[FirstKey(Resp)]].is_list THEN NoneInt
    ELSE Len(Resp.body[ItemKeys[FirstKey(Resp)]].items)

\* the fetcher goes on with the page after the one it asked for (2 when it
\* asked without a page number), at the same URL
GoesToNextPage ==
    /\ next_url = LastRequest.url
    /\ next_page = IF LastRequest.params.has_page THEN LastRequest.params.page + 1 ELSE 2
    /\ fpc = "done" => pages_fetched >= fcfg.max_pages

StopsPaginating == next_url = None /\ fpc = "done"

C26_ReturnsEveryPageInOrder ==
    /\ fpc = "done" =>
          /\ fetchOut.state = "returned"
          /\ fetchOut.signals = ConcatGot(flog)
          /\ \A i \in DOMAIN flog : flog[i].ok /\ flog[i].tries >= 1
          /\ fetchOut.meta.pages_fetched = Len(flog)
          /\ fetchOut.meta.signals_count = Len(fetchOut.signals)
    /\ (LastResponse /\ Resp.shape = "dict" /\ Resp.next = None
          /\ ~MorePages(Resp) /\ RespItemCount < fcfg.page_size) =>
          /\ fpc = "done"
          /\ fetchOut.meta.pages_fetched = Len(flog)

\* C26 witness: two pages of one signal each, the first naming a next URL and
\* the second with a null next; fetch_all returned 2 signals, pages_fetched 2.
C26_Witness ==
    /\ fpc = "done" /\ Len(flog) = 2 /\ LastResponse
    /\ flog[1].url = BaseUrl /\ flog[2].url = NextUrl
    /\ Len(flog[1].got) = 1 /\ Len(flog[2].got) = 1
    /\ Resp.shape = "dict" /\ Resp.next = None
    /\ fetchOut.state = "returned"
    /\ fetchOut.signals = flog[1].got \o flog[2].got
    /\ fetchOut.meta = [pages_fetched |-> 2, signals_count |-> 2]

\* the attempts of request i that failed
FailedAttempts(i) == flog[i].tries - (IF flog[i].ok THEN 1 ELSE 0)

\* C27: the k-th failed attempt of a page request is followed by one wait of
\* base_backoff * 2^(k-1), the last one before the terminal error included; a
\* successful attempt is followed by no wait.
C27_WaitsDouble ==
    /\ \A i \in DOMAIN flog :
          /\ Len(flog[i].waits) = FailedAttempts(i)
          /\ \A k \in DOMAIN flog[i].waits :
                /\ flog[i].waits[k] = fcfg.backoff_seconds * 2^(k - 1)
                /\ k > 1 => flog[i].waits[k] = 2 * flog[i].waits[k - 1]
    /\ (fpc = "raised" /\ flog # <<>>) =>
          Len(flog[Len(flog)].waits) = fcfg.max_retries

\* C27 witness: with max_retries 2 and a base of 3 both attempts of a request
\* failed, the fetcher waited 3 and then 6, and fetch_all raised.
C27_Witness ==
    /\ fpc = "raised" /\ flog # <<>> /\ fcfg.max_retries = 2
    /\ flog[Len(flog)].tries = 2 /\ ~flog[Len(flog)].ok
    /\ flog[Len(flog)].waits = <<3, 6>>

(***************************************************************************)
(* SpecParse, continued: which key of an object payload is read.           *)
(***************************************************************************)
\* the candidate keys an object payload has, by their rank in ItemKeys
PresentKeys(payload) == {i \in 1..4 : ItemKeys[i] \in DOMAIN payload.body}

\* C28: for an object payload parse_signals reads the first of data, results,
\* items, symbols that is present and no other: a non-list value there gives
\* the empty list even when a later key holds a list; an object with none of
\* the keys, and a payload that is neither list nor object, give the empty list.
C28_FirstPresentKeyOnly ==
    flog # <<>> =>
        LET call == flog[1]
            p == call.payload
        IN  /\ ~call.raised
            /\ p.shape = "other" => call.got = <<>>
            /\ p.shape = "dict" =>
                  IF PresentKeys(p) = {} THEN call.got = <<>>
                  ELSE LET first == CHOOSE i \in PresentKeys(p) :
                                        \A j \in PresentKeys(p) : i <= j
                           v == p.body[ItemKeys[first]]
                       IN  IF v.is_list THEN call.got = ParseItems(v.items)
                           ELSE call.got = <<>>

\* C28 witness: {"data": <not a list>, "items": [a usable item]} parsed to the
\* empty list.
C28_Witness ==
    /\ flog # <<>>
    /\ flog[1].payload.shape = "dict"
    /\ DOMAIN flog[1].payload.body = {"data", "items"}
    /\ ~flog[1].payload.body["data"].is_list
    /\ flog[1].payload.body["items"].is_list
    /\ ParseItems(flog[1].payload.body["items"].items) # <<>>
    /\ flog[1].got = <<>>

(***************************************************************************)
(* SpecStore, continued: the expiry of the rows of one publish.            *)
(***************************************************************************)
\* the rows of a table all expire at the same moment
OneExpiry(table) ==
    \A k1 \in DOMAIN table, k2 \in DOMAIN table :
        table[k1].expires_at = table[k2].expires_at

\* C29: every row a replace_active_pairs or replace_rule_matches call inserts
\* gets the same expires_at, the time read once at the start of the call plus
\* ttl_seconds, so the rows of one publish never expire at different moments.
C29_OneExpiryPerPublish ==
    /\ txn.phase \in {"insert", "purge", "commit"} =>
          /\ Cardinality(DOMAIN txn.work) <= txn.inserted
          /\ \A k \in DOMAIN txn.work :
                txn.work[k].expires_at = isoformat(txn.at + txn.ttl)
    /\ OneExpiry(pairsDb)
    /\ OneExpiry(matchesDb)
    /\ hist.published =>
          \A k \in DOMAIN pairsDb : pairsDb[k].expires_at = isoformat(hist.expiry)

\* C29 witness: a call has inserted two rows while the clock moved on after
\* the call began; both rows carry the expiry computed at its start.
C29_Witness ==
    /\ txn.phase = "purge" /\ txn.inserted = 2
    /\ Cardinality(DOMAIN txn.work) = 2
    /\ now > txn.at
    /\ \A k \in DOMAIN txn.work : txn.work[k].expires_at = isoformat(txn.at + txn.ttl)

(***************************************************************************)
(* SpecRules, continued: what an active pair records of its matches.       *)
(***************************************************************************)
\* the (rule, signal) pairs of the call that matched symbol sym, by their
\* number in the order of evaluation (rule after rule, signal after signal)
MatchingPairs(sym) ==
    {k \in 0..(Len(rules) * Len(signals) - 1) :
        /\ signals[(k % Len(signals)) + 1].symbol = sym
        /\ evaluate_rule(rules[(k \div Len(signals)) + 1],
                         signals[(k % Len(signals)) + 1]).matched}

PairRule(k) == rules[(k \div Len(signals)) + 1]
PairSignal(k) == signals[(k % Len(signals)) + 1]

LastMatch(sym) == CHOOSE k \in MatchingPairs(sym) : \A j \in MatchingPairs(sym) : j <= k
FirstMatch(sym) == CHOOSE k \in MatchingPairs(sym) : \A j \in MatchingPairs(sym) : k <= j

\* C30: an active pair's market_phase, bias and confidence are those of the
\* last matching pair evaluated for its symbol, and its matched_rule_ids are
\* the ids of all the rules that matched the symbol.
C30_LastSeenMetadata ==
    evalOut # <<>> =>
        \A sym \in DOMAIN evalOut[1].active_pairs :
            LET ap == evalOut[1].active_pairs[sym]
                s == PairSignal(LastMatch(sym))
            IN  /\ MatchingPairs(sym) # {}
                /\ ap.market_phase = s.market_phase
                /\ ap.bias = s.bias
                /\ ap.confidence = s.confidence
                /\ ap.matched_rule_ids = {PairRule(k).id : k \in MatchingPairs(sym)}

\* What the code keeps instead: the market_phase, bias and confidence of the
\* first matching pair, with the rule ids of all of them.
ActivePairKeepsFirstSeen ==
    evalOut # <<>> =>
        \A sym \in DOMAIN evalOut[1].active_pairs :
            LET ap == evalOut[1].active_pairs[sym]
                s == PairSignal(FirstMatch(sym))
            IN  /\ MatchingPairs(sym) # {}
                /\ ap.market_phase = s.market_phase
                /\ ap.bias = s.bias
                /\ ap.confidence = s.confidence
                /\ ap.matched_rule_ids = {PairRule(k).id : k \in MatchingPairs(sym)}

\* the (rule, signal) pairs of the call that matched, by their number in the
\* order of evaluation
AllMatching ==
    {k \in 0..(Len(rules) * Len(signals) - 1) :
        evaluate_rule(PairRule(k), PairSignal(k)).matched}

RECURSIVE EvalLoopAll(_, _, _, _, _)
EvalLoopAll(sigs, rls, k, results, activation) ==
    IF k >= Len(rls) * Len(sigs)
    THEN [results |-> results, activation |-> activation]
    ELSE
      LET r == rls[(k \div Len(sigs)) + 1]
          s == sigs[(k % Len(sigs)) + 1]
          res == evaluate_rule(r, s)
      IN  IF res.matched
          THEN EvalLoopAll(sigs, rls, k + 1, Append(results, res),
                           Activate(activation, r, s, res))
          ELSE EvalLoopAll(sigs, rls, k + 1, results, activation)

EvaluateRulesAll(sigs, rls) ==
    LET out == EvalLoopAll(sigs, rls, 0, <<>>, <<>>)
    IN  [results |-> out.results, active_pairs |-> ResolveActive(out.activation)]

\* C40: the symbol prefilter of evaluate_rules changes no output: the results
\* and the active pairs are those of a version that evaluates every (rule,
\* signal) pair.
C40_PrefilterChangesNothing ==
    evalOut # <<>> =>
        LET all == EvaluateRulesAll(signals, rules)
        IN  /\ evalOut[1].results = all.results
            /\ evalOut[1].active_pairs = all.active_pairs

\* C40 witness: a rule with a symbol list skipped a signal of another symbol
\* and matched one of its own, next to a rule without a list.
C40_Witness ==
    /\ evalOut # <<>>
    /\ \E k \in 0..(Len(rules) * Len(signals) - 1) : Prefiltered(PairRule(k), PairSignal(k))
    /\ \E k \in AllMatching : PairRule(k).symbols # <<>>
    /\ \E k \in AllMatching : PairRule(k).symbols = <<>>

(***************************************************************************)
(* SpecRule, continued: the shape of every RuleMatchResult.                *)
(***************************************************************************)
\* C39: every RuleMatchResult of evaluate_rule has matched = true exactly when
\* its direction is 'buy' or 'sell', matched = false exactly when its direction
\* is null, and exactly one reason.
C39_MatchedIffDirection ==
    result # <<>> =>
        /\ result[1].matched \in BOOLEAN
        /\ result[1].matched <=> result[1].direction \in {"buy", "sell"}
        /\ ~result[1].matched <=> result[1].direction = None
        /\ Len(result[1].reasons) = 1

\* C39 witness: a fresh bearish signal passed every filter of an enabled rule
\* and failed in the timeframe chain; the result is a refusal without direction.
C39_Witness ==
    /\ result # <<>>
    /\ rule.enabled /\ signal.is_stale # "True" /\ signal.bias = "BEARISH"
    /\ result[1].debug.has_timeframes
    /\ ~result[1].matched /\ result[1].direction = None
    /\ Len(result[1].reasons) = 1

(***************************************************************************)
(* SpecStore, continued: the primary keys of the two tables.               *)
(***************************************************************************)
\* the last entry a publish call carries for a key
LastEntry(args, key) ==
    args[CHOOSE i \in DOMAIN args :
            /\ args[i].key = key
            /\ \A j \in DOMAIN args : j > i => args[j].key # key]

\* C32: the active-pair table holds at most one row per symbol and the
\* rule-match table at most one row per (rule_id, symbol) in every state; a
\* publish call that carries several entries for one key succeeds and stores
\* the last of them.
C32_OneRowPerKey ==
    /\ obs # <<>> =>
          \A r1 \in obs[1].rows, r2 \in obs[1].rows : r1.symbol = r2.symbol => r1 = r2
    /\ txn.phase \in {"insert", "purge"} =>
          /\ txn.inserted = Len(txn.args) - Len(txn.rows)
          /\ Cardinality(DOMAIN txn.work) =
                Cardinality({txn.args[i].key : i \in 1..txn.inserted})
    /\ txn.phase = "purge" =>
          /\ txn.inserted = Len(txn.args)
          /\ DOMAIN txn.work = {txn.args[i].key : i \in DOMAIN txn.args}
          /\ \A k \in DOMAIN txn.work :
                /\ txn.work[k].direction = LastEntry(txn.args, k).direction
                /\ txn.work[k].ids = LastEntry(txn.args, k).ids
    /\ txn.phase = "raised" =>
          \E i \in DOMAIN txn.args : ~DirectionOk(txn.args[i].direction)

\* C32 witness: a replace_rule_matches call with 'buy' and then 'sell' for the
\* key (1, EURUSD) has inserted both entries; the table holds one row, 'sell'.
C32_Witness ==
    /\ txn.phase = "purge" /\ txn.kind = "matches"
    /\ Len(txn.args) = 2 /\ txn.args[1].key = txn.args[2].key
    /\ txn.args[1].direction = "buy" /\ txn.args[2].direction = "sell"
    /\ txn.inserted = 2
    /\ DOMAIN txn.work = {txn.args[1].key}
    /\ txn.work[txn.args[1].key].direction = "sell"

(***************************************************************************)
(* Spec, continued: the Runner's store work and its fetch.                 *)
(***************************************************************************)
\* the Runner is inside one of the store calls of _persist
Persisting == rpc \in {"snapshots", "replace_pairs", "in_pairs", "in_matches"}

\* C33: while a fetch request of the Runner is in flight, retries and backoff
\* waits included, the Runner has no store transaction open: the rules were
\* read before the fetch began, and every store write of the cycle begins
\* after fetch_all has returned.
C33_NoStoreWorkDuringFetch ==
    /\ Fetching => (rpc = "fetch" /\ txn = NoTxn)
    /\ rpc = "load_rules" => (fpc = "idle" /\ txn = NoTxn)
    /\ (Persisting \/ InFlight) =>
          (fpc = "done" /\ fetchOut.state = "returned" /\ rpc # "fetch")

\* C33 witness: in its second cycle, after a first cycle that published a
\* pair, the Runner is at the second attempt of a page request.
C33_Witness ==
    /\ rpc = "fetch" /\ fpc = "get" /\ attempt = 2
    /\ cyc.n = 2 /\ pairsDb # EmptyTable /\ txn = NoTxn

(***************************************************************************)
(* SpecEndToEnd: the Runner of Spec with a signal source that also answers *)
(* with contested symbols, stale signals, items without a symbol and a     *)
(* payload of no known shape.                                              *)
(***************************************************************************)
ItemC == RawItem("EURUSD", "bearish ", [t \in {"d1"} |-> "sell"])
ItemStale == [ItemB EXCEPT !.is_stale = "True"]
ItemNoSymbol == RawItem(Missing, "bullish", [t \in {"d1"} |-> "buy"])

EndToEndPayloads ==
    {ListPayload(<<>>), ListPayload(<<ItemA>>), ListPayload(<<ItemB>>),
     ListPayload(<<ItemA, ItemC>>), ListPayload(<<ItemStale>>),
     ListPayload(<<ItemNoSymbol>>), OtherPayload}

\* "signals, fetch_meta = self._fetch_signals()" against that source
RunnerFetchAny ==
    /\ rpc = "fetch"
    /\ \/ FetchBegin
       \/ FetchLoopTest
       \/ AttemptFail
       \/ FetchExhausted
       \/ \E payload \in EndToEndPayloads : AttemptOk(payload)
    /\ obs' = <<>>
    /\ UNCHANGED <<evalVars, now, pairsDb, matchesDb, snapshotsDb, txn, rpc, cyc,
                   status, hist, runVars>>

NextEndToEnd ==
    \/ RunnerBeginCycle
    \/ RunnerExit
    \/ RunnerLoadRules
    \/ RunnerFetchAny
    \/ RunnerEvaluate
    \/ RunnerCycleFailed
    \/ RunnerUpsertSnapshots
    \/ RunnerReplacePairs
    \/ RunnerReplaceMatches
    \/ RunnerCycleOk
    \/ RunnerSleepCheck
    \/ RunnerSleepSecond
    \/ request_stop
    \/ StepDelete /\ UNCHANGED <<evalVars, fetchVars, runVars>>
    \/ StepInsertRow /\ UNCHANGED <<evalVars, fetchVars, runVars>>
    \/ StepPurge /\ UNCHANGED <<evalVars, fetchVars, runVars>>
    \/ StepCommit /\ UNCHANGED <<evalVars, fetchVars, runVars>>
    \/ ReaderList /\ UNCHANGED <<evalVars, fetchVars, runVars>>
    \/ RunnerTick /\ UNCHANGED <<evalVars, fetchVars, runVars>>

SpecEndToEnd == Init /\ [][NextEndToEnd]_vars

\* in the evaluation of sigs against rls an enabled rule matched a signal of
\* sym that is not stale with direction d, and no rule matched a signal of sym
\* with another direction
Justified(rls, sigs, sym, d) ==
    /\ \E i \in DOMAIN rls, j \in DOMAIN sigs :
          /\ rls[i].enabled /\ sigs[j].is_stale # "True" /\ sigs[j].symbol = sym
          /\ evaluate_rule(rls[i], sigs[j]).matched
          /\ evaluate_rule(rls[i], sigs[j]).direction = d
    /\ \A i \in DOMAIN rls, j \in DOMAIN sigs :
          (sigs[j].symbol = sym /\ evaluate_rule(rls[i], sigs[j]).matched)
              => evaluate_rule(rls[i], sigs[j]).direction = d

\* the running cycle has committed its replace_active_pairs call and has not
\* finished yet
PairsCommittedThisCycle ==
    rpc = "in_matches" \/ (rpc = "in_pairs" /\ txn.phase = "done")

TablesAgree ==
    \A r \in list_active_pairs(pairsDb, now) :
        \A id \in r.matched_rule_ids :
            /\ <<id, r.symbol>> \in DOMAIN matchesDb
            /\ matchesDb[<<id, r.symbol>>].direction = r.direction

\* C35: the committed active-pair table and rule-match table agree at every
\* moment a concurrent reader can look, also while the Runner is in the middle
\* of persisting a cycle.
C35_TablesAlwaysConsistent == TablesAgree

\* What the code gives instead: the tables agree once a cycle has succeeded,
\* until the next cycle commits its active pairs.
TablesAgreeBetweenCycles ==
    (~Persisting /\ rpc # "in_matches") => TablesAgree

(***************************************************************************)
(* SpecStore, continued: expiry of a published set.                        *)
(***************************************************************************)
\* C36: at any time list_active_pairs returns every row of the latest
\* committed publish or no row at all: expiry never hides part of a set.
C36_AllRowsOrNone ==
    obs # <<>> =>
        /\ ObsPairs \in {hist.given, {}}
        /\ Cardinality(obs[1].rows) \in {0, Cardinality(DOMAIN pairsDb)}

\* C36 witness: a publish of two pairs was committed, its expiry has passed,
\* and a reader is given no row while both rows are still in the table.
C36_Witness ==
    /\ obs # <<>> /\ hist.published /\ CallFree
    /\ Cardinality(hist.given) = 2 /\ Cardinality(DOMAIN pairsDb) = 2
    /\ obs[1].at >= hist.expiry
    /\ obs[1].rows = {}

(***************************************************************************)
(* Spec, continued: a fetch cut short by max_pages.                        *)
(***************************************************************************)
\* fetch_all stopped at max_pages while the last response named a further page
Truncated ==
    /\ fpc = "done" /\ fetchOut.state = "returned"
    /\ pages_fetched = fcfg.max_pages /\ next_url # None

\* C37: a fetch_all that stops at max_pages with a further page announced
\* returns the signals of the pages fetched as a plain success, its meta
\* holding nothing but pages_fetched and signals_count, and the Runner then
\* publishes the active pairs computed from those signals alone, which removes
\* the pair of a symbol it did not fetch.
C37_TruncatedFetchPublished ==
    Truncated =>
        /\ fetchOut.signals = fsignals
        /\ DOMAIN fetchOut.meta = {"pages_fetched", "signals_count"}
        /\ fetchOut.meta.pages_fetched = fcfg.max_pages
        /\ fetchOut.meta.signals_count = Len(fsignals)
        /\ rpc \notin {"load_rules", "loop", "stopped"} \/ AfterSuccessfulCycle
        /\ rpc = "sleep" =>
              /\ status # <<>> /\ status[1].last_error = None
              /\ status[1].fetch_meta = fetchOut.meta
              /\ signals = fetchOut.signals
              /\ DOMAIN pairsDb = DOMAIN evaluate_rules(fsignals, rules).active_pairs
              /\ DOMAIN pairsDb \subseteq {fsignals[i].symbol : i \in DOMAIN fsignals}

\* C37 witness: with a rule for every symbol the first cycle fetched, and so
\* published, EURUSD; the second cycle's fetch was cut at max_pages after two
\* pages of GBPUSD that each named a next page, the cycle succeeded and EURUSD
\* is gone from the active pairs.
C37_Witness ==
    /\ Truncated /\ rpc = "sleep" /\ cyc.n = 2
    /\ rules # <<>> /\ rules[1].symbols = <<>> /\ "EURUSD" \in DOMAIN snapshotsDb
    /\ status # <<>> /\ status[1].last_error = None
    /\ DOMAIN pairsDb = {"GBPUSD"}

(***************************************************************************)
(* SpecEndToEnd, continued: a cycle that fetched no usable signal.         *)
(***************************************************************************)
\* the cycle before the sleep failed
AfterFailedCycle ==
    /\ rpc \in {"sleep", "sleeping", "loop", "stopped"}
    /\ status # <<>> /\ status[1].last_error # None

\* C38: a cycle whose fetch returns no parsed signal is a successful cycle
\* that publishes the empty set, after which list_active_pairs and
\* list_rule_matches return nothing; a cycle whose fetch raises leaves both
\* as they were.
C38_EmptyFetchPublishesNothing ==
    /\ (fpc = "done" /\ fetchOut.state = "returned" /\ fetchOut.signals = <<>>
          /\ rpc \in {"sleep", "sleeping", "loop", "stopped"}) =>
          /\ status # <<>> /\ status[1].last_error = None
          /\ status[1].cycle = cyc.n /\ status[1].signals_loaded = 0
          /\ pairsDb = EmptyTable /\ matchesDb = EmptyTable
          /\ list_active_pairs(pairsDb, now) = {}
          /\ list_rule_matches(matchesDb, rulesDb, "admin", now) = {}
    /\ AfterFailedCycle =>
          /\ fetchOut.state = "raised"
          /\ pairsDb = hist.left[2] /\ matchesDb = hist.left[3]
          /\ list_active_pairs(pairsDb, now) = list_active_pairs(hist.left[2], now)
          /\ list_rule_matches(matchesDb, rulesDb, "admin", now) =
                list_rule_matches(hist.left[3], rulesDb, "admin", now)

\* C38 witness: with a rule for every symbol the first cycle fetched, and so
\* published, EURUSD; the second cycle was answered with a payload of no known
\* shape, succeeded, and both tables are empty.
C38_Witness ==
    /\ rpc = "sleep" /\ cyc.n = 2
    /\ rules # <<>> /\ rules[1].symbols = <<>> /\ "EURUSD" \in DOMAIN snapshotsDb
    /\ LastResponse /\ Resp.shape = "other"
    /\ status # <<>> /\ status[1].last_error = None
    /\ pairsDb = EmptyTable /\ matchesDb = EmptyTable

====
